---- MODULE Spec2Model ----
(***************************************************************************)
(* Labyrinth Duel session server: the maze (internal/game), the rooms and  *)
(* the room directory (internal/room), the wire messages                   *)
(* (internal/messages) and the connection handlers (cmd/server/main.go).   *)
(***************************************************************************)
EXTENDS Integers, Sequences, FiniteSets, Bags, TLC

(* ---------------------------------------------------------------------- *)
(* Bounds of the model                                                     *)
(* ---------------------------------------------------------------------- *)
\* number of random sources a generated maze is drawn from
NumSeeds == 2
\* number of messages and disconnects handled in one behaviour of the server
MaxSteps == 3
\* number of frames and read errors of one behaviour of the read loops
MaxFrames == 2
\* number of joins sent to a room that is full
MaxJoins == 2
\* largest coordinate a move message of the server specification carries
MaxCoord == 1
\* how far from the player's cell, on each axis, the destinations of the
\* specification of the moves lie
MoveReach == 2
\* number of workers that call into the room directory concurrently
NumWorkers == 2
\* largest width and height of the mazes whose generation is followed step by step
MaxGenWidth == 4
MaxGenHeight == 3
\* number of handlers that begin in the interleavings of the handlers of one room
MaxHandlers == 3

(* ---------------------------------------------------------------------- *)
(* Program constants                                                       *)
(* ---------------------------------------------------------------------- *)
\* game.NewMaze(10, 10)
MazeWidth == 10
MazeHeight == 10
\* AddPlayer(client.ID, 0, 0)
StartX == 0
StartY == 0

\* client.ID: uuid.New().String()[:8], one per accepted connection
\* (the n-th accepted connection is given the n-th of them)
NewIDs == <<"p1", "p2", "p3">>
IDs == {NewIDs[n] : n \in 1..Len(NewIDs)}
\* the connections the server accepts when it starts with none
ClientIDs == {"p1", "p2"}
\* room ids a join message names; "" is a join without roomId
RoomIDs == {"", "abc"}
Seeds == 0..(NumSeeds - 1)
\* x and y of a move message
MoveCoords == -1..MaxCoord

(* ---------------------------------------------------------------------- *)
(* internal/game: Maze                                                     *)
(* ---------------------------------------------------------------------- *)
\* Cell{X, Y, Top, Right, Bottom, Left, Visited} with all walls closed
NewCell(x, y) ==
  [X |-> x, Y |-> y, Top |-> TRUE, Right |-> TRUE, Bottom |-> TRUE,
   Left |-> TRUE, Visited |-> FALSE]

\* the k-th draw rand.Intn(n) of random source seed
rand_Intn(seed, k, n) ==
  ((seed + 1) * (k + 1) + (k \div 2) + seed * (k \div 5)) % n

getUnvisitedNeighbors(m, x, y) ==
  LET up    == IF y > 0 /\ ~m.Cells[y - 1][x].Visited
               THEN <<[x |-> x, y |-> y - 1]>> ELSE <<>>
      right == IF x < m.Width - 1 /\ ~m.Cells[y][x + 1].Visited
               THEN <<[x |-> x + 1, y |-> y]>> ELSE <<>>
      down  == IF y < m.Height - 1 /\ ~m.Cells[y + 1][x].Visited
               THEN <<[x |-> x, y |-> y + 1]>> ELSE <<>>
      left  == IF x > 0 /\ ~m.Cells[y][x - 1].Visited
               THEN <<[x |-> x - 1, y |-> y]>> ELSE <<>>
  IN  up \o right \o down \o left

\* removeWall that clears walls between horizontal neighbours only
removeWall_horizontal_only(m, x1, y1, x2, y2) ==
  LET dx == x2 - x1
  IN  IF dx = 1
      THEN [m EXCEPT !.Cells[y1][x1].Right = FALSE, !.Cells[y2][x2].Left = FALSE]
      ELSE IF dx = -1
      THEN [m EXCEPT !.Cells[y1][x1].Left = FALSE, !.Cells[y2][x2].Right = FALSE]
      ELSE m

\* removeWall that clears the wall of the first cell only
removeWall_one_side(m, x1, y1, x2, y2) ==
  LET dx == x2 - x1
      dy == y2 - y1
  IN  IF dx = 1 THEN [m EXCEPT !.Cells[y1][x1].Right = FALSE]
      ELSE IF dx = -1 THEN [m EXCEPT !.Cells[y1][x1].Left = FALSE]
      ELSE IF dy = 1 THEN [m EXCEPT !.Cells[y1][x1].Bottom = FALSE]
      ELSE IF dy = -1 THEN [m EXCEPT !.Cells[y1][x1].Top = FALSE]
      ELSE m

\* removeWall that clears, in both cells, the wall opposite to the shared one
removeWall_mirrored(m, x1, y1, x2, y2) ==
  LET dx == x2 - x1
      dy == y2 - y1
  IN  IF dx = 1
      THEN [m EXCEPT !.Cells[y1][x1].Left = FALSE, !.Cells[y2][x2].Right = FALSE]
      ELSE IF dx = -1
      THEN [m EXCEPT !.Cells[y1][x1].Right = FALSE, !.Cells[y2][x2].Left = FALSE]
      ELSE IF dy = 1
      THEN [m EXCEPT !.Cells[y1][x1].Top = FALSE, !.Cells[y2][x2].Bottom = FALSE]
      ELSE IF dy = -1
      THEN [m EXCEPT !.Cells[y1][x1].Bottom = FALSE, !.Cells[y2][x2].Top = FALSE]
      ELSE m

removeWall(m, x1, y1, x2, y2) ==
  LET dx == x2 - x1
      dy == y2 - y1
  IN  IF dx = 1
      THEN [m EXCEPT !.Cells[y1][x1].Right = FALSE, !.Cells[y2][x2].Left = FALSE]
      ELSE IF dx = -1
      THEN [m EXCEPT !.Cells[y1][x1].Left = FALSE, !.Cells[y2][x2].Right = FALSE]
      ELSE IF dy = 1
      THEN [m EXCEPT !.Cells[y1][x1].Bottom = FALSE, !.Cells[y2][x2].Top = FALSE]
      ELSE IF dy = -1
      THEN [m EXCEPT !.Cells[y1][x1].Top = FALSE, !.Cells[y2][x2].Bottom = FALSE]
      ELSE m

\* an iteration of the loop of generate that does not pop
generateStep_never_pops(s, idx) ==
  LET current   == s.stack[Len(s.stack)]
      neighbors == getUnvisitedNeighbors(s.m, current.x, current.y)
  IN  IF Len(neighbors) = 0
      THEN s
      ELSE LET next == neighbors[idx + 1]
               m1   == removeWall(s.m, current.x, current.y, next.x, next.y)
           IN  [m     |-> [m1 EXCEPT !.Cells[next.y][next.x].Visited = TRUE],
                stack |-> Append(s.stack, next),
                draws |-> s.draws + 1]

\* one iteration of the loop of generate, in the state [m, stack, draws]: pop,
\* or carve towards neighbors[idx]; draws counts the calls of rand.Intn
generateStep(s, idx) ==
  LET current   == s.stack[Len(s.stack)]
      neighbors == getUnvisitedNeighbors(s.m, current.x, current.y)
  IN  IF Len(neighbors) = 0
      THEN [s EXCEPT !.stack = SubSeq(s.stack, 1, Len(s.stack) - 1)]
      ELSE LET next == neighbors[idx + 1]
               m1   == removeWall(s.m, current.x, current.y, next.x, next.y)
           IN  [m     |-> [m1 EXCEPT !.Cells[next.y][next.x].Visited = TRUE],
                stack |-> Append(s.stack, next),
                draws |-> s.draws + 1]

\* the index generate draws in state s: rand.Intn(len(neighbors)) of its source
generateDraw(s, seed) ==
  LET current   == s.stack[Len(s.stack)]
      neighbors == getUnvisitedNeighbors(s.m, current.x, current.y)
  IN  IF Len(neighbors) = 0 THEN 0 ELSE rand_Intn(seed, s.draws, Len(neighbors))

\* the loop `for len(stack) > 0` of generate, run for at most n iterations
\* (halved, so that the evaluation does not nest once per iteration)
RECURSIVE generateLoop(_, _, _)
generateLoop(s, seed, n) ==
  IF Len(s.stack) = 0 \/ n = 0
  THEN s
  ELSE IF n = 1
  THEN generateStep(s, generateDraw(s, seed))
  ELSE generateLoop(generateLoop(s, seed, n \div 2), seed, n - (n \div 2))

\* generate: every cell is pushed once and popped once, so the loop ends within
\* 2 * Width * Height iterations
generate(m, seed) ==
  generateLoop([m     |-> [m EXCEPT !.Cells[0][0].Visited = TRUE],
                stack |-> <<[x |-> 0, y |-> 0]>>,
                draws |-> 0],
               seed, 2 * m.Width * m.Height).m

NewMaze(width, height, seed) ==
  generate([Width  |-> width,
            Height |-> height,
            Cells  |-> [y \in 0..(height - 1) |-> [x \in 0..(width - 1) |-> NewCell(x, y)]]],
           seed)

\* no call of NewMaze
NoCall ==
  [status |-> "idle", error |-> "", width |-> 0, height |-> 0,
   m |-> [Width |-> 0, Height |-> 0, Cells |-> <<>>], stack |-> <<>>, draws |-> 0]

\* NewMaze that takes a grid with no row or no column for a maze with no cell
NewMaze_call_empty_grid(width, height) ==
  IF height < 0 \/ (height > 0 /\ width < 0)
  THEN [NoCall EXCEPT !.status = "panic", !.width = width, !.height = height,
                      !.error = "makeslice: len out of range"]
  ELSE [NoCall EXCEPT !.status = "generate", !.width = width, !.height = height,
                      !.m = [Width |-> width, Height |-> height, Cells |-> <<>>]]

\* NewMaze(width, height) up to the loop of generate. The function validates
\* neither argument: make([][]Cell, height) and make([]Cell, width) panic on a
\* negative length, and with no row or no column m.Cells[0][0] of generate
\* panics; the function has no error result.
NewMaze_call(width, height) ==
  IF height < 0 \/ (height > 0 /\ width < 0)
  THEN [NoCall EXCEPT !.status = "panic", !.width = width, !.height = height,
                      !.error = "makeslice: len out of range"]
  ELSE IF height = 0 \/ width <= 0
  THEN [NoCall EXCEPT !.status = "panic", !.width = width, !.height = height,
                      !.error = "index out of range"]
  ELSE [status |-> "generate",
        error  |-> "",
        width  |-> width,
        height |-> height,
        m      |-> [Width  |-> width,
                    Height |-> height,
                    Cells  |-> [y \in 0..(height - 1) |->
                                  [x \in 0..(width - 1) |->
                                     IF x = 0 /\ y = 0
                                     THEN [NewCell(x, y) EXCEPT !.Visited = TRUE]
                                     ELSE NewCell(x, y)]]],
        stack  |-> <<[x |-> 0, y |-> 0]>>,
        draws  |-> 0]

\* a call of NewMaze together with the stream of values the random source of
\* its process gives out
RunOf(call, seed) ==
  [status |-> call.status, error |-> call.error, width |-> call.width,
   height |-> call.height, m |-> call.m, stack |-> call.stack,
   draws |-> call.draws, seed |-> seed]

\* two calls of NewMaze not yet made
NoRuns == [r \in 1..2 |-> RunOf(NoCall, 0)]

\* CanMove without the test of the destination against the grid
CanMove_unbounded(m, fromX, fromY, toX, toY) ==
  LET cell == m.Cells[fromY][fromX]
      dx   == toX - fromX
      dy   == toY - fromY
  IN  IF dx = 1 THEN ~cell.Right
      ELSE IF dx = -1 THEN ~cell.Left
      ELSE IF dy = 1 THEN ~cell.Bottom
      ELSE IF dy = -1 THEN ~cell.Top
      ELSE FALSE

\* CanMove with the walls of the two horizontal directions exchanged
CanMove_swapped(m, fromX, fromY, toX, toY) ==
  IF toX < 0 \/ toX >= m.Width \/ toY < 0 \/ toY >= m.Height
  THEN FALSE
  ELSE LET cell == m.Cells[fromY][fromX]
           dx   == toX - fromX
           dy   == toY - fromY
       IN  IF dx = 1 THEN ~cell.Left
           ELSE IF dx = -1 THEN ~cell.Right
           ELSE IF dy = 1 THEN ~cell.Bottom
           ELSE IF dy = -1 THEN ~cell.Top
           ELSE FALSE

CanMove(m, fromX, fromY, toX, toY) ==
  IF toX < 0 \/ toX >= m.Width \/ toY < 0 \/ toY >= m.Height
  THEN FALSE
  ELSE LET cell == m.Cells[fromY][fromX]
           dx   == toX - fromX
           dy   == toY - fromY
       IN  IF dx = 1 THEN ~cell.Right
           ELSE IF dx = -1 THEN ~cell.Left
           ELSE IF dy = 1 THEN ~cell.Bottom
           ELSE IF dy = -1 THEN ~cell.Top
           ELSE FALSE


\* the maze objects game.NewMaze(10, 10) can return for a room, one per random
\* source, as NewMaze returns them. Room.Maze is a pointer (*game.Maze): the
\* model keeps the index of the object in the room and reads the object
\* through MazeAt
MazeObjects == [seed \in Seeds |-> NewMaze(MazeWidth, MazeHeight, seed)]

VARIABLE
  heap       \* per maze object, its cells that were assigned after NewMaze returned it

\* no cell of a maze object has been assigned since NewMaze returned it
Untouched == [a \in {} |-> NewCell(0, 0)]

NewHeap == [ptr \in Seeds |-> Untouched]

\* the maze object ptr with the cells assigned to it since NewMaze returned it
Object(ptr, cells) ==
  LET m == MazeObjects[ptr]
  IN  IF DOMAIN cells = {} THEN m
      ELSE [m EXCEPT !.Cells =
              [y \in 0..(m.Height - 1) |->
                 [x \in 0..(m.Width - 1) |->
                    IF <<x, y>> \in DOMAIN cells THEN cells[<<x, y>>]
                    ELSE m.Cells[y][x]]]]

\* the maze a pointer of a room points to, as it is now
MazeAt(ptr) == Object(ptr, heap[ptr])

(* ---------------------------------------------------------------------- *)
(* internal/messages                                                       *)
(* ---------------------------------------------------------------------- *)
\* ServerMessage.Maze is a pointer (*MazeData): nil (the frame has no maze), or
\* the MazeData object, read through MazeDataAt: the maze object it was built
\* from and the cells that had been assigned to that object by then
NoMaze == [maze |-> -1, cells |-> Untouched]

ServerMessage(type, players, message, maze) ==
  [Type |-> type, Players |-> players, Message |-> message, Maze |-> maze]

Player(id, x, y) == [ID |-> id, X |-> x, Y |-> y]

(* ---------------------------------------------------------------------- *)
(* internal/room: Room and Manager                                         *)
(* ---------------------------------------------------------------------- *)
PlayerState(id, x, y) == [ID |-> id, X |-> x, Y |-> y]

\* Manager.GetOrCreateRoom: the directory after the call (the room is rms[roomID])
\* GetOrCreateRoom that makes a new Room whether the id is mapped or not
GetOrCreateRoom_always_new(rms, roomID, seed) ==
  [i \in DOMAIN rms \cup {roomID} |->
     IF i = roomID
     THEN [ID |-> roomID, Maze |-> seed,
           Players |-> [p \in {} |-> PlayerState(p, 0, 0)]]
     ELSE rms[i]]

GetOrCreateRoom(rms, roomID, seed) ==
  IF roomID \in DOMAIN rms
  THEN rms
  ELSE [i \in DOMAIN rms \cup {roomID} |->
          IF i = roomID
          THEN [ID |-> roomID, Maze |-> seed,
                Players |-> [p \in {} |-> PlayerState(p, 0, 0)]]
          ELSE rms[i]]

\* the random sources a call of GetOrCreateRoom can draw from: NewMaze runs only
\* when the room is created
NewRoomSeeds(rms, roomID) == IF roomID \in DOMAIN rms THEN {0} ELSE Seeds

\* Manager.GetRoom: TRUE when the room exists (the result is not nil)
GetRoom(rms, roomID) == roomID \in DOMAIN rms

\* AddPlayer that turns away a third player
AddPlayer_capped(r, playerID, x, y) ==
  IF Cardinality(DOMAIN r.Players \ {playerID}) >= 2
  THEN r
  ELSE [r EXCEPT !.Players =
          [p \in DOMAIN r.Players \cup {playerID} |->
             IF p = playerID THEN PlayerState(playerID, x, y) ELSE r.Players[p]]]

\* Room.AddPlayer: the room after the call
AddPlayer(r, playerID, x, y) ==
  [r EXCEPT !.Players =
     [p \in DOMAIN r.Players \cup {playerID} |->
        IF p = playerID THEN PlayerState(playerID, x, y) ELSE r.Players[p]]]

\* Room.RemovePlayer: the room after the call
RemovePlayer(r, playerID) ==
  [r EXCEPT !.Players = [p \in DOMAIN r.Players \ {playerID} |-> r.Players[p]]]

\* UpdatePlayerPosition that stores the position before it validates the move
UpdatePlayerPosition_writeFirst(r, playerID, x, y) ==
  IF playerID \notin DOMAIN r.Players
  THEN [ok |-> FALSE, room |-> r]
  ELSE [ok   |-> CanMove(MazeAt(r.Maze), r.Players[playerID].X, r.Players[playerID].Y, x, y),
        room |-> [r EXCEPT !.Players[playerID].X = x, !.Players[playerID].Y = y]]

\* UpdatePlayerPosition that stores the position in every player of the room
UpdatePlayerPosition_everyPlayer(r, playerID, x, y) ==
  IF playerID \notin DOMAIN r.Players
  THEN [ok |-> FALSE, room |-> r]
  ELSE IF ~CanMove(MazeAt(r.Maze), r.Players[playerID].X, r.Players[playerID].Y, x, y)
  THEN [ok |-> FALSE, room |-> r]
  ELSE [ok |-> TRUE,
        room |-> [r EXCEPT !.Players =
                    [p \in DOMAIN r.Players |-> [r.Players[p] EXCEPT !.X = x, !.Y = y]]]]

\* Room.UpdatePlayerPosition: the returned bool and the room after the call
UpdatePlayerPosition(r, playerID, x, y) ==
  IF playerID \notin DOMAIN r.Players
  THEN [ok |-> FALSE, room |-> r]
  ELSE IF ~CanMove(MazeAt(r.Maze), r.Players[playerID].X, r.Players[playerID].Y, x, y)
  THEN [ok |-> FALSE, room |-> r]
  ELSE [ok |-> TRUE,
        room |-> [r EXCEPT !.Players[playerID].X = x, !.Players[playerID].Y = y]]

\* Room.GetPlayers: the lists the call can return, one entry per map entry, in
\* any order (the iteration order of a Go map is unspecified)
GetPlayers(r) ==
  LET ids == DOMAIN r.Players
      n   == Cardinality(ids)
      orders == {o \in [1..n -> ids] : \A i, j \in 1..n : o[i] = o[j] => i = j}
  IN  {[i \in 1..n |-> Player(r.Players[o[i]].ID, r.Players[o[i]].X, r.Players[o[i]].Y)] :
         o \in orders}

IsEmpty(r) == DOMAIN r.Players = {}


(* ---------------------------------------------------------------------- *)
(* cmd/server/main.go: the connection table and the handlers               *)
(* ---------------------------------------------------------------------- *)
VARIABLES
  clients,   \* var clients: client.ID -> Client{ID, RoomID}
  rooms,     \* roomManager.rooms: roomID -> Room{ID, Maze, Players}
  closed,    \* the connections whose worker has returned (conn.Close())
  sent,      \* per connection, the frames the last step passed to its WriteJSON
  last,      \* the step taken last: its handler, its statement and its outcome
  before,    \* roomManager.rooms as the step taken last found it
  steps,     \* messages and disconnects the read loops have handed to a handler
  ws,        \* per connection, where its handleWebSocket is and its locals
  dir,       \* the room directory under concurrent GetOrCreateRoom calls
  rl,        \* one room under concurrent UpdatePlayerPosition and GetPlayers calls
  wr,        \* the connections under concurrent SendJSON calls
  gen,       \* one call of NewMaze, followed through the loop of generate
  net,       \* the frame the last step read, the broken sockets, the frames that got out
  twin,      \* two runs of NewMaze, drawing from the one source of math/rand
  hs,        \* the handlers of the connections of one room, step by step
  lk         \* the locks of the server and the handlers that take them

\* the state of the handlers of cmd/server/main.go
server == <<clients, rooms, closed, sent, last, before, steps, ws, heap>>

vars == <<clients, rooms, closed, sent, last, before, steps, ws, heap, dir, rl, wr, gen, net, twin, hs, lk>>

Client(id, roomID) == [ID |-> id, RoomID |-> roomID]

NoSend == [c \in IDs |-> <<>>]

\* Client.SendJSON: the frame is appended to the connection's outbound stream
SendJSON(out, c, msg) == [out EXCEPT ![c] = Append(@, msg)]

\* broadcastToRoom, the test of the range over clients: the frame is written
\* to client c if it is bound to roomID and is not excludeID
broadcastToRoom(cl, c, roomID, excludeID) ==
  cl[c].RoomID = roomID /\ cl[c].ID # excludeID

\* the type of the frame a handler broadcasts
BroadcastType(kind) ==
  IF kind = "join" THEN "playerJoined"
  ELSE IF kind = "move" THEN "gameState" ELSE "playerLeft"

convertCell(c) ==
  [X |-> c.X, Y |-> c.Y, Top |-> c.Top, Right |-> c.Right,
   Bottom |-> c.Bottom, Left |-> c.Left]

\* convertMazeToMessage that reads m.Cells[x][y] for the cell of row y, column x
convertMazeToMessage_transposed(m) ==
  [Width  |-> m.Width,
   Height |-> m.Height,
   Cells  |-> [y \in 0..(m.Height - 1) |->
                 [x \in 0..(m.Width - 1) |-> convertCell(m.Cells[x][y])]]]

convertMazeToMessage(m) ==
  [Width  |-> m.Width,
   Height |-> m.Height,
   Cells  |-> [y \in 0..(m.Height - 1) |->
                 [x \in 0..(m.Width - 1) |-> convertCell(m.Cells[y][x])]]]

\* the MazeData objects convertMazeToMessage builds from the maze objects as
\* NewMaze returned them
MazeDataObjects == [ptr \in Seeds |-> convertMazeToMessage(MazeObjects[ptr])]

\* the MazeData a pointer of a frame points to
MazeDataAt(data) ==
  IF data.cells = Untouched THEN MazeDataObjects[data.maze]
  ELSE convertMazeToMessage(Object(data.maze, data.cells))

\* the pointer convertMazeToMessage(r.Maze) returns: to the MazeData object
\* built from the maze object r.Maze points to, as that object is now
MazeDataPtr(mazePtr) == [maze |-> mazePtr, cells |-> heap[mazePtr]]

\* a step of the handler op of connection id: the statement it executed, the
\* room id, x and y of the handler, the outcome of the statement and, for a
\* step of the range of broadcastToRoom, the client it visited
Step(op, at, id, roomID, x, y, ok, c) ==
  [op |-> op, at |-> at, id |-> id, roomId |-> roomID, x |-> x, y |-> y,
   ok |-> ok, c |-> c]

Event(op, id, roomID, x, y, ok) == Step(op, "", id, roomID, x, y, ok, "")

\* handleWebSocket of a connection at statement pc, with the locals of the
\* handler it is in: the handler, its roomID (msg.RoomID or client.RoomID), the
\* x and y of the move, the MazeData and the players list of the frame it is
\* to write, and the clients the range of broadcastToRoom has still to visit;
\* and, for the claims about a join, whether the room had no player when its
\* AddPlayer was called
Locals(pc) ==
  [pc |-> pc, kind |-> "", roomID |-> "", x |-> 0, y |-> 0, mazeData |-> NoMaze,
   players |-> <<>>, todo |-> {}, c |-> "", first |-> FALSE]

\* no connection has been accepted
NoRun == [id \in IDs |-> Locals("Accept")]

(* ---------------------------------------------------------------------- *)
(* sync.RWMutex as the room package uses it, and Manager.GetOrCreateRoom   *)
(* statement by statement, run by several workers at once                  *)
(* ---------------------------------------------------------------------- *)
Workers == 1..NumWorkers

\* the zero value of a sync.RWMutex: no writer (0), no readers
RWMutex == [writer |-> 0, readers |-> {}]

\* a Lock() that never waits
CanLock_never_waits(mu) == TRUE

\* Lock() returns once there is neither a writer nor a reader
CanLock(mu) == mu.writer = 0 /\ mu.readers = {}

Lock(mu, w) == [mu EXCEPT !.writer = w]

Unlock(mu) == [mu EXCEPT !.writer = 0]

\* an RLock() that does not wait for the writer
CanRLock_ignores_writer(mu) == TRUE

\* RLock() returns once there is no writer
CanRLock(mu) == mu.writer = 0

RLock(mu, w) == [mu EXCEPT !.readers = @ \cup {w}]

RUnlock(mu, w) == [mu EXCEPT !.readers = @ \ {w}]

\* NewManager(), with the heap of Room and Maze objects the workers allocate
\* and each worker's position in GetOrCreateRoom, its argument, its local
\* variable room and the pointer it returned (0: nil)
NewManager ==
  [mu     |-> RWMutex,
   rooms  |-> [i \in {} |-> 0],
   heap   |-> <<>>,
   mazes  |-> <<>>,
   pc     |-> [w \in Workers |-> "idle"],
   roomID |-> [w \in Workers |-> ""],
   room   |-> [w \in Workers |-> 0],
   ret    |-> [w \in Workers |-> 0],
   during |-> [w \in Workers |-> {}]]

\* the workers that are inside GetOrCreateRoom
InCall(d) == {w \in Workers : d.pc[w] \notin {"idle", "done"}}

\* the player of the connection a worker serves
PlayerOf(w) == NewIDs[w]

\* a Room whose maze is the maze object mazePtr, after every worker's
\* connection has joined it (AddPlayer(client.ID, 0, 0)); with each worker's
\* position in handleMove, the x and y of its message, the result of its
\* UpdatePlayerPosition, the slice its GetPlayers built, the workers whose
\* UpdatePlayerPosition had returned true when its GetPlayers began, the
\* workers that were inside UpdatePlayerPosition when it called it, and the
\* players of the room when its GetPlayers began; the slice is kept as the bag
\* of its elements, the order in which range visits a map being unspecified
JoinedRoom(mazePtr) ==
  [mu      |-> RWMutex,
   Maze    |-> mazePtr,
   Players |-> [p \in {PlayerOf(w) : w \in Workers} |-> PlayerState(p, StartX, StartY)],
   pc      |-> [w \in Workers |-> "idle"],
   x       |-> [w \in Workers |-> 0],
   y       |-> [w \in Workers |-> 0],
   ok      |-> [w \in Workers |-> FALSE],
   players |-> [w \in Workers |-> EmptyBag],
   after   |-> [w \in Workers |-> {}],
   during  |-> [w \in Workers |-> {}],
   at      |-> [w \in Workers |-> [p \in {} |-> PlayerState(p, 0, 0)]]]

\* a JSON number as it is written: its integer part and its fraction ("" when
\* it has none)
Number(int, fraction) == [int |-> int, fraction |-> fraction]

\* a frame as conn.ReadMessage returns it: bytes that are a JSON object or are
\* not, and in the object the members type, roomId, x and y (an omitted roomId
\* reads as "", an omitted x or y as 0)
Frame(json, type, roomId, x, y) ==
  [json |-> json, type |-> type, roomId |-> roomId, x |-> x, y |-> y]

NoFrame == Frame(FALSE, "", "", Number(0, ""), Number(0, ""))

\* ClientMessage
ClientMessage(type, roomID, x, y) == [Type |-> type, RoomID |-> roomID, X |-> x, Y |-> y]

\* a json.Unmarshal that cuts the fraction of a number off
Unmarshal_truncating(frame) ==
  IF ~frame.json
  THEN [err |-> "SyntaxError", msg |-> ClientMessage("", "", 0, 0)]
  ELSE [err |-> "",
        msg |-> ClientMessage(frame.type, frame.roomId, frame.x.int, frame.y.int)]

\* json.Unmarshal(msgBytes, &msg): bytes that are no JSON are a syntax error,
\* a number with a fraction for an int field is a type error
Unmarshal(frame) ==
  IF ~frame.json
  THEN [err |-> "SyntaxError", msg |-> ClientMessage("", "", 0, 0)]
  ELSE IF frame.x.fraction # "" \/ frame.y.fraction # ""
  THEN [err |-> "UnmarshalTypeError", msg |-> ClientMessage(frame.type, frame.roomId, 0, 0)]
  ELSE [err |-> "",
        msg |-> ClientMessage(frame.type, frame.roomId, frame.x.int, frame.y.int)]

\* a server that has read nothing: the frame the last step read, the
\* connections whose socket is broken while their worker has not yet seen it,
\* and the frames of the last step that were written without error
NoTraffic ==
  [frame |-> NoFrame, broken |-> {}, delivered |-> NoSend]

\* the zero value of a sync.Mutex: not held (0)
Mutex == 0

\* a Lock() of the connection's mutex that never waits
MutexFree_always(mu) == TRUE

\* Lock() of a sync.Mutex returns once nobody holds it
MutexFree(mu) == mu = Mutex

\* the connections of the workers
Conns == {PlayerOf(w) : w \in Workers}

\* the connections of the workers with nothing being written: per connection
\* the holder of Client.mu and the workers inside Conn.WriteJSON; per worker its
\* position, the call its frame comes from (client.SendJSON of a handler, or
\* broadcastToRoom), the connections it has still to send it to and the
\* connection it is sending it to
NoWrites ==
  [mu      |-> [c \in Conns |-> Mutex],
   writing |-> [c \in Conns |-> {}],
   pc      |-> [w \in Workers |-> "idle"],
   from    |-> [w \in Workers |-> ""],
   todo    |-> [w \in Workers |-> {}],
   c       |-> [w \in Workers |-> ""]]

\* the list a GetPlayers returned, as the set of its elements (the order in
\* which range visits r.Players is unspecified)
Elements(players) == {players[i] : i \in 1..Len(players)}

\* the room id the connections of the handlers join
HandlerRoom == "abc"

\* the connection table, the room HandlerRoom and the handlers of the workers'
\* connections when the connections of the workers in joined have joined it
\* one after the other and no handler is running: the connections of the
\* table, per connection its Client.RoomID, the players list of the frame last
\* written to it and the type of the first frame about the room written to it;
\* the room; per worker the position in its handler, the handler's name, the
\* x and y of its move, the list its GetPlayers returned, the clients its
\* broadcastToRoom has still to visit, and whether no other handler has been
\* running since it began; the number of handlers begun; and, while no
\* handler has begun since, how the handler that returned last did so:
\* "silent" without a broadcast, "alone" after a broadcast with no other
\* handler running between its beginning and its return, "overlapped" after a
\* broadcast otherwise, "panic" when its range panicked; and whether, when the
\* handler that runs or ran alone began, the list last written to a
\* connection of the room was not the room's Snapshot
Handlers(joined) ==
  LET players == [p \in {PlayerOf(w) : w \in joined} |-> PlayerState(p, StartX, StartY)]
      list    == {Player(PlayerOf(w), StartX, StartY) : w \in joined}
  IN  [table   |-> Conns,
       RoomID  |-> [c \in Conns |->
                      IF c \in DOMAIN players THEN HandlerRoom ELSE ""],
       lastList |-> [c \in Conns |-> IF c \in DOMAIN players THEN list ELSE {}],
       first   |-> [c \in Conns |-> IF c \in DOMAIN players THEN "mazeData" ELSE ""],
       room    |-> [ID |-> HandlerRoom, Maze |-> 0, Players |-> players],
       pc      |-> [w \in Workers |-> "idle"],
       kind    |-> [w \in Workers |-> ""],
       x       |-> [w \in Workers |-> 0],
       y       |-> [w \in Workers |-> 0],
       players |-> [w \in Workers |-> {}],
       todo    |-> [w \in Workers |-> {}],
       alone   |-> [w \in Workers |-> FALSE],
       begun   |-> 0,
       ended   |-> "",
       stale   |-> FALSE]

NoHandlers == Handlers({})

\* the locks of the server that are a sync.RWMutex: roomManager.mu, clientsMu
\* and the mu of each room
Mu(obj, id) == [obj |-> obj, id |-> id]

LockRooms == {"abc", "xyz"}

RWMutexes ==
  {Mu("roomManager", ""), Mu("clients", "")} \cup {Mu("Room", r) : r \in LockRooms}

\* the server's locks with no handler running: the four kinds of lock, per
\* RWMutex the worker that waits in its Lock() for the readers to leave (0:
\* none), the connection table and the RoomID of each connection, the
\* connections that have stopped reading, and per worker the handler that has
\* been called and the statements it has still to execute
NoLocks ==
  [mu      |-> [m \in RWMutexes |-> RWMutex],
   waiting |-> [m \in RWMutexes |-> 0],
   cmu     |-> [c \in Conns |-> Mutex],
   table   |-> {},
   RoomID  |-> [c \in Conns |-> ""],
   stalled |-> {},
   called  |-> [w \in Workers |-> ""],
   code    |-> [w \in Workers |-> <<>>]]

Init ==
  /\ clients = [c \in {} |-> Client(c, "")]
  /\ rooms = [i \in {} |-> 0]
  /\ before = rooms
  /\ closed = {}
  /\ sent = NoSend
  /\ last = Event("init", "", "", 0, 0, FALSE)
  /\ steps = 0
  /\ ws = NoRun
  /\ heap = NewHeap
  /\ dir = NewManager
  /\ rl = JoinedRoom(0)
  /\ wr = NoWrites
  /\ gen = NoCall
  /\ net = NoTraffic
  /\ twin = NoRuns
  /\ hs = NoHandlers
  /\ lk = NoLocks

\* the connections whose handler holds clientsMu for reading: it is in the
\* range of broadcastToRoom, at the test of a client or in c.SendJSON, or its
\* test has panicked and the deferred clientsMu.RUnlock() has not run yet
Readers == {id \in IDs : ws[id].pc \in {"range", "c.SendJSON", "panic"}}

\* the connections accepted so far
Accepted == {id \in IDs : ws[id].pc # "Accept"}

\* the frame a handler broadcasts: playerJoined and playerLeft name the client
BroadcastMessage(kind, id, players) ==
  ServerMessage(BroadcastType(kind), players, IF kind = "move" THEN "" ELSE id, NoMaze)

\* the handler of connection id returns: handleJoin and handleMove to the read
\* loop, handleDisconnect to handleWebSocket, which returns (conn.Close())
Returns(id) ==
  /\ ws' = [ws EXCEPT ![id] =
               Locals(IF ws[id].kind = "disconnect" THEN "closed" ELSE "ReadMessage")]
  /\ closed' = IF ws[id].kind = "disconnect" THEN closed \cup {id} ELSE closed

\* handleWebSocket up to clientsMu.Unlock(): the connection is upgraded and the
\* client is registered under clientsMu.Lock(), which waits for the broadcasts
\* that hold clientsMu for reading
Connect(id) ==
  /\ Cardinality(Accepted) < Len(NewIDs)
  /\ id = NewIDs[Cardinality(Accepted) + 1]
  /\ id \in ClientIDs
  /\ Readers = {}
  /\ clients' = [c \in DOMAIN clients \cup {id} |->
                   IF c = id THEN Client(id, "") ELSE clients[c]]
  /\ ws' = [ws EXCEPT ![id] = Locals("connected")]
  /\ sent' = NoSend
  /\ last' = Step("connect", "store", id, "", 0, 0, TRUE, "")
  /\ before' = rooms /\ UNCHANGED heap
  /\ UNCHANGED <<rooms, closed, steps>>

\* client.SendJSON(messages.ServerMessage{Type: "connected", ...}); the read
\* loop begins
handleWebSocket_SendJSON(id) ==
  /\ ws[id].pc = "connected"
  /\ sent' = SendJSON(NoSend, id, ServerMessage("connected", <<>>, id, NoMaze))
  /\ ws' = [ws EXCEPT ![id] = Locals("ReadMessage")]
  /\ last' = Step("connect", "SendJSON", id, "", 0, 0, TRUE, "")
  /\ before' = rooms /\ UNCHANGED heap
  /\ UNCHANGED <<clients, rooms, closed, steps>>

\* handleJoin(client, msg) is called with the room id of the frame
handleJoin(id, roomID) ==
  /\ steps < MaxSteps
  /\ ws[id].pc = "ReadMessage"
  /\ id \in DOMAIN clients
  /\ ws' = [ws EXCEPT ![id].pc = "RoomID", ![id].kind = "join",
                        ![id].roomID = roomID]
  /\ sent' = NoSend
  /\ last' = Step("join", "handleJoin", id, roomID, 0, 0, TRUE, "")
  /\ before' = rooms /\ UNCHANGED heap
  /\ steps' = steps + 1
  /\ UNCHANGED <<clients, rooms, closed>>

\* client.RoomID = msg.RoomID, under no lock
Join_RoomID(id) ==
  /\ ws[id].pc = "RoomID"
  /\ clients' = [clients EXCEPT ![id].RoomID = ws[id].roomID]
  /\ ws' = [ws EXCEPT ![id].pc = "GetOrCreateRoom"]
  /\ sent' = NoSend
  /\ last' = Step("join", "RoomID", id, ws[id].roomID, 0, 0, TRUE, "")
  /\ before' = rooms /\ UNCHANGED heap
  /\ UNCHANGED <<rooms, closed, steps>>

\* r := roomManager.GetOrCreateRoom(msg.RoomID)
Join_GetOrCreateRoom(id) ==
  /\ ws[id].pc = "GetOrCreateRoom"
  /\ \E seed \in NewRoomSeeds(rooms, ws[id].roomID) :
       rooms' = GetOrCreateRoom(rooms, ws[id].roomID, seed)
  /\ ws' = [ws EXCEPT ![id].pc = "AddPlayer"]
  /\ sent' = NoSend
  /\ last' = Step("join", "GetOrCreateRoom", id, ws[id].roomID, 0, 0, TRUE, "")
  /\ before' = rooms /\ UNCHANGED heap
  /\ UNCHANGED <<clients, closed, steps>>

\* r.AddPlayer(client.ID, 0, 0)
Join_AddPlayer(id) ==
  /\ ws[id].pc = "AddPlayer"
  /\ rooms' = [rooms EXCEPT ![ws[id].roomID] =
                 AddPlayer(@, clients[id].ID, StartX, StartY)]
  /\ ws' = [ws EXCEPT ![id].pc = "mazeData",
                      ![id].first = IsEmpty(rooms[ws[id].roomID])]
  /\ sent' = NoSend
  /\ last' = Step("join", "AddPlayer", id, ws[id].roomID, 0, 0, TRUE, "")
  /\ before' = rooms /\ UNCHANGED heap
  /\ UNCHANGED <<clients, closed, steps>>

\* mazeData := convertMazeToMessage(r.Maze) and the r.GetPlayers() of the
\* mazeData frame
Join_GetPlayers(id) ==
  /\ ws[id].pc = "mazeData"
  /\ \E players \in GetPlayers(rooms[ws[id].roomID]) :
       ws' = [ws EXCEPT ![id].pc = "SendJSON", ![id].players = players,
                          ![id].mazeData = MazeDataPtr(rooms[ws[id].roomID].Maze)]
  /\ sent' = NoSend
  /\ last' = Step("join", "mazeData", id, ws[id].roomID, 0, 0, TRUE, "")
  /\ before' = rooms /\ UNCHANGED heap
  /\ UNCHANGED <<clients, rooms, closed, steps>>

\* client.SendJSON(messages.ServerMessage{Type: "mazeData", ...})
Join_SendJSON(id) ==
  /\ ws[id].pc = "SendJSON"
  /\ sent' = SendJSON(NoSend, id,
                      ServerMessage("mazeData", ws[id].players, "", ws[id].mazeData))
  /\ ws' = [ws EXCEPT ![id].pc = "GetPlayers", ![id].players = <<>>,
                        ![id].mazeData = NoMaze]
  /\ last' = Step("join", "SendJSON", id, ws[id].roomID, 0, 0, TRUE, "")
  /\ before' = rooms /\ UNCHANGED heap
  /\ UNCHANGED <<clients, rooms, closed, steps>>

\* handleMove is called: it returns if client.RoomID is "" or
\* roomManager.GetRoom(client.RoomID) is nil
handleMove(id, x, y) ==
  /\ steps < MaxSteps
  /\ ws[id].pc = "ReadMessage"
  /\ id \in DOMAIN clients
  /\ steps' = steps + 1
  /\ before' = rooms /\ UNCHANGED heap
  /\ sent' = NoSend
  /\ UNCHANGED <<clients, rooms, closed>>
  /\ IF clients[id].RoomID = "" \/ ~GetRoom(rooms, clients[id].RoomID)
     THEN \* msg.X and msg.Y are not read
          /\ last' = Step("move", "GetRoom", id, clients[id].RoomID, 0, 0, FALSE, "")
          /\ UNCHANGED ws
     ELSE /\ last' = Step("move", "GetRoom", id, clients[id].RoomID, x, y, TRUE, "")
          /\ ws' = [ws EXCEPT ![id].pc = "UpdatePlayerPosition", ![id].kind = "move",
                                ![id].roomID = clients[id].RoomID,
                                ![id].x = x, ![id].y = y]

\* the heap after m.Cells[y][x] = cell on the maze object ptr
Cells_assign(h, ptr, x, y, cell) ==
  [h EXCEPT ![ptr] = [a \in DOMAIN h[ptr] \cup {<<x, y>>} |->
                        IF a = <<x, y>> THEN cell ELSE h[ptr][a]]]

\* Move_UpdatePlayerPosition whose CanMove takes the cell of the player by
\* reference and knocks down its right wall
Move_UpdatePlayerPosition_smash(id) ==
  /\ ws[id].pc = "UpdatePlayerPosition"
  /\ LET roomID == ws[id].roomID
         r      == rooms[roomID]
         res    == UpdatePlayerPosition(r, clients[id].ID, ws[id].x, ws[id].y)
     IN  /\ rooms' = [rooms EXCEPT ![roomID] = res.room]
         /\ heap' = IF clients[id].ID \notin DOMAIN r.Players THEN heap
                    ELSE LET x == r.Players[clients[id].ID].X
                             y == r.Players[clients[id].ID].Y
                         IN  Cells_assign(heap, r.Maze, x, y,
                                          [MazeAt(r.Maze).Cells[y][x] EXCEPT !.Right = FALSE])
         /\ last' = Step("move", "UpdatePlayerPosition", id, roomID,
                         ws[id].x, ws[id].y, res.ok, "")
         /\ IF res.ok
            THEN ws' = [ws EXCEPT ![id].pc = "GetPlayers"] /\ UNCHANGED closed
            ELSE Returns(id)
  /\ sent' = NoSend
  /\ before' = rooms
  /\ UNCHANGED <<clients, steps>>

\* if r.UpdatePlayerPosition(client.ID, msg.X, msg.Y) { ... }: the handler
\* returns if the move is rejected; CanMove copies the cell it reads and
\* assigns nothing through the maze pointer
Move_UpdatePlayerPosition(id) ==
  /\ ws[id].pc = "UpdatePlayerPosition"
  /\ LET roomID == ws[id].roomID
         res    == UpdatePlayerPosition(rooms[roomID], clients[id].ID, ws[id].x, ws[id].y)
     IN  \* the call works on the room of the directory, whatever it returns
         /\ rooms' = [rooms EXCEPT ![roomID] = res.room]
         /\ last' = Step("move", "UpdatePlayerPosition", id, roomID,
                         ws[id].x, ws[id].y, res.ok, "")
         /\ IF res.ok
            THEN ws' = [ws EXCEPT ![id].pc = "GetPlayers"] /\ UNCHANGED closed
            ELSE Returns(id)
  /\ sent' = NoSend
  /\ before' = rooms /\ UNCHANGED heap
  /\ UNCHANGED <<clients, steps>>

\* a handleDisconnect without the test client.RoomID != ""
handleDisconnect_anyRoomID(id) ==
  /\ steps < MaxSteps
  /\ ws[id].pc = "ReadMessage"
  /\ id \in DOMAIN clients
  /\ Readers = {}
  /\ steps' = steps + 1
  /\ clients' = [c \in DOMAIN clients \ {id} |-> clients[c]]
  /\ sent' = NoSend
  /\ before' = rooms /\ UNCHANGED heap
  /\ last' = Step("disconnect", "delete", id, clients[id].RoomID, 0, 0, TRUE, "")
  /\ ws' = [ws EXCEPT ![id].pc = "RemovePlayer", ![id].kind = "disconnect",
                        ![id].roomID = clients[id].RoomID]
  /\ UNCHANGED <<rooms, closed>>

\* the read loop ends (read error or close) and handleDisconnect is called:
\* the client is deleted from the table under clientsMu.Lock(), which waits for
\* the broadcasts that hold clientsMu for reading; the handler returns if
\* client.RoomID is ""
handleDisconnect(id) ==
  /\ steps < MaxSteps
  /\ ws[id].pc = "ReadMessage"
  /\ id \in DOMAIN clients
  /\ Readers = {}
  /\ steps' = steps + 1
  /\ clients' = [c \in DOMAIN clients \ {id} |-> clients[c]]
  /\ sent' = NoSend
  /\ before' = rooms /\ UNCHANGED heap
  /\ last' = Step("disconnect", "delete", id, clients[id].RoomID, 0, 0, TRUE, "")
  /\ IF clients[id].RoomID = ""
     THEN /\ ws' = [ws EXCEPT ![id] = Locals("closed")]
          /\ closed' = closed \cup {id}
     ELSE /\ ws' = [ws EXCEPT ![id].pc = "RemovePlayer", ![id].kind = "disconnect",
                                ![id].roomID = clients[id].RoomID]
          /\ UNCHANGED closed
  /\ UNCHANGED rooms

\* r := roomManager.GetRoom(client.RoomID), and if it is not nil
\* r.RemovePlayer(client.ID)
Disconnect_RemovePlayer(id) ==
  /\ ws[id].pc = "RemovePlayer"
  /\ LET roomID == ws[id].roomID
     IN  IF GetRoom(rooms, roomID)
         THEN /\ rooms' = [rooms EXCEPT ![roomID] = RemovePlayer(@, id)]
              /\ ws' = [ws EXCEPT ![id].pc = "GetPlayers"]
              /\ last' = Step("disconnect", "RemovePlayer", id, roomID, 0, 0, TRUE, "")
              /\ UNCHANGED closed
         ELSE /\ Returns(id)
              /\ last' = Step("disconnect", "RemovePlayer", id, roomID, 0, 0, FALSE, "")
              /\ UNCHANGED rooms
  /\ sent' = NoSend
  /\ before' = rooms /\ UNCHANGED heap
  /\ UNCHANGED <<clients, steps>>

\* the r.GetPlayers() of the frame a handler broadcasts, the argument of the
\* call of broadcastToRoom
Broadcast_GetPlayers(id) ==
  /\ ws[id].pc = "GetPlayers"
  /\ \E players \in GetPlayers(rooms[ws[id].roomID]) :
       ws' = [ws EXCEPT ![id].pc = "RLock", ![id].players = players]
  /\ sent' = NoSend
  /\ last' = Step(ws[id].kind, "GetPlayers", id, ws[id].roomID,
                  ws[id].x, ws[id].y, TRUE, "")
  /\ before' = rooms /\ UNCHANGED heap
  /\ UNCHANGED <<clients, rooms, closed, steps>>

\* broadcastToRoom: clientsMu.RLock() and the start of the range over clients;
\* with no client in the table the range is empty and the handler returns
Broadcast_RLock(id) ==
  /\ ws[id].pc = "RLock"
  /\ IF DOMAIN clients = {}
     THEN Returns(id)
     ELSE /\ ws' = [ws EXCEPT ![id].pc = "range", ![id].todo = DOMAIN clients]
          /\ UNCHANGED closed
  /\ sent' = NoSend
  /\ last' = Step(ws[id].kind, "RLock", id, ws[id].roomID,
                  ws[id].x, ws[id].y, TRUE, "")
  /\ before' = rooms /\ UNCHANGED heap
  /\ UNCHANGED <<clients, rooms, steps>>

\* the range of broadcastToRoom goes on to client c and tests it,
\* c.RoomID == roomID && c.ID != excludeID: c.SendJSON(msg) is next if it
\* passes; after the last client the deferred clientsMu.RUnlock() and the
\* handler returns
Broadcast_range(id, c) ==
  /\ ws[id].pc = "range"
  /\ c \in ws[id].todo
  /\ IF broadcastToRoom(clients, c, ws[id].roomID,
                        IF ws[id].kind = "join" THEN id ELSE "")
     THEN /\ ws' = [ws EXCEPT ![id].pc = "c.SendJSON", ![id].c = c,
                                ![id].todo = @ \ {c}]
          /\ UNCHANGED closed
     ELSE IF ws[id].todo = {c}
     THEN Returns(id)
     ELSE /\ ws' = [ws EXCEPT ![id].todo = @ \ {c}]
          /\ UNCHANGED closed
  /\ sent' = NoSend
  /\ last' = Step(ws[id].kind, "range", id, ws[id].roomID,
                  ws[id].x, ws[id].y, TRUE, c)
  /\ before' = rooms /\ UNCHANGED heap
  /\ UNCHANGED <<clients, rooms, steps>>

\* c.SendJSON(msg) of the range, to the client that passed the test; after
\* the last client the deferred clientsMu.RUnlock() and the handler returns
Broadcast_SendJSON(id) ==
  /\ ws[id].pc = "c.SendJSON"
  /\ sent' = SendJSON(NoSend, ws[id].c,
                      BroadcastMessage(ws[id].kind, id, ws[id].players))
  /\ last' = Step(ws[id].kind, "c.SendJSON", id, ws[id].roomID,
                  ws[id].x, ws[id].y, TRUE, ws[id].c)
  /\ IF ws[id].todo = {}
     THEN Returns(id)
     ELSE /\ ws' = [ws EXCEPT ![id].pc = "range", ![id].c = ""]
          /\ UNCHANGED closed
  /\ before' = rooms /\ UNCHANGED heap
  /\ UNCHANGED <<clients, rooms, steps>>

\* the test of the range reads c.RoomID while c's own goroutine writes it in
\* handleJoin, with no lock in common: the string is two words, and a read of
\* one word of "" (no bytes, length 0) and one of the other value can see
\* that value's length with no bytes; compared with a roomID of that length
\* the read of the bytes panics
Torn(old, new, roomID) ==
  /\ (old = "") # (new = "")
  /\ Len(roomID) = Len(IF old = "" THEN new ELSE old)

\* the test of client c panics in the goroutine of connection id: the range
\* is abandoned and the goroutine unwinds, clientsMu still read-locked and
\* the connection still open
Broadcast_panic(id, c) ==
  /\ ws[id].pc = "range"
  /\ c \in ws[id].todo
  /\ ws[c].pc = "RoomID"
  /\ Torn(clients[c].RoomID, ws[c].roomID, ws[id].roomID)
  /\ ws' = [ws EXCEPT ![id] = [Locals("panic") EXCEPT !.kind = ws[id].kind,
                                                      !.roomID = ws[id].roomID]]
  /\ sent' = NoSend
  /\ last' = Step(ws[id].kind, "panic", id, ws[id].roomID,
                  ws[id].x, ws[id].y, TRUE, c)
  /\ before' = rooms /\ UNCHANGED heap
  /\ UNCHANGED <<clients, rooms, closed, steps>>

\* the unwinding runs the deferred clientsMu.RUnlock() of broadcastToRoom
Broadcast_panic_RUnlock(id) ==
  /\ ws[id].pc = "panic"
  /\ ws' = [ws EXCEPT ![id].pc = "conn.Close"]
  /\ sent' = NoSend
  /\ last' = Step(ws[id].kind, "RUnlock", id, ws[id].roomID, 0, 0, TRUE, "")
  /\ before' = rooms /\ UNCHANGED heap
  /\ UNCHANGED <<clients, rooms, closed, steps>>

\* the unwinding runs the deferred conn.Close() of handleWebSocket and
\* net/http recovers the panic; handleDisconnect is not called
handleWebSocket_conn_Close(id) ==
  /\ ws[id].pc = "conn.Close"
  /\ ws' = [ws EXCEPT ![id] = Locals("closed")]
  /\ closed' = closed \cup {id}
  /\ sent' = NoSend
  /\ last' = Step(ws[id].kind, "conn.Close", id, ws[id].roomID, 0, 0, TRUE, "")
  /\ before' = rooms /\ UNCHANGED heap
  /\ UNCHANGED <<clients, rooms, steps>>

\* what the handlers of main.go leave alone
idle == <<dir, rl, wr, gen, net, twin, hs, lk>>

\* a step of a handler that has been called
Work ==
  \/ \E id \in IDs : handleWebSocket_SendJSON(id)
  \/ \E id \in IDs : Join_RoomID(id)
  \/ \E id \in IDs : Join_GetOrCreateRoom(id)
  \/ \E id \in IDs : Join_AddPlayer(id)
  \/ \E id \in IDs : Join_GetPlayers(id)
  \/ \E id \in IDs : Join_SendJSON(id)
  \/ \E id \in IDs : Move_UpdatePlayerPosition(id)
  \/ \E id \in IDs : Disconnect_RemovePlayer(id)
  \/ \E id \in IDs : Broadcast_GetPlayers(id)
  \/ \E id \in IDs : Broadcast_RLock(id)
  \/ \E id \in IDs, c \in IDs : Broadcast_range(id, c)
  \/ \E id \in IDs : Broadcast_SendJSON(id)
  \/ \E id \in IDs, c \in IDs : Broadcast_panic(id, c)
  \/ \E id \in IDs : Broadcast_panic_RUnlock(id)
  \/ \E id \in IDs : handleWebSocket_conn_Close(id)

Next ==
  \/ \E id \in IDs : Connect(id) /\ UNCHANGED idle
  \/ \E id \in IDs, roomID \in RoomIDs : handleJoin(id, roomID) /\ UNCHANGED idle
  \/ \E id \in IDs, x \in MoveCoords, y \in MoveCoords :
       handleMove(id, x, y) /\ UNCHANGED idle
  \/ \E id \in IDs : handleDisconnect(id) /\ UNCHANGED idle
  \/ Work /\ UNCHANGED idle

Spec == Init /\ [][Next]_vars


(* ---------------------------------------------------------------------- *)
(* Room.UpdatePlayerPosition over the whole grid: one connection that has  *)
(* joined a room and walked to any cell of its maze (every cell can be     *)
(* reached), sending move messages for every destination within MoveReach  *)
(* cells of its position, in the grid or out of it                         *)
(* ---------------------------------------------------------------------- *)
NearCoords(c) == (c - MoveReach)..(c + MoveReach)

MoveInit ==
  \E seed \in Seeds, x \in 0..(MazeWidth - 1), y \in 0..(MazeHeight - 1) :
    /\ clients = [c \in {NewIDs[1]} |-> Client(c, "abc")]
    /\ rooms = [i \in {"abc"} |->
                  [ID |-> i, Maze |-> seed,
                   Players |-> [p \in {NewIDs[1]} |-> PlayerState(p, x, y)]]]
    /\ before = rooms
    /\ closed = {}
    /\ sent = NoSend
    /\ last = Event("init", "", "", 0, 0, FALSE)
    /\ steps = 0
    /\ ws = [NoRun EXCEPT ![NewIDs[1]] = Locals("ReadMessage")]
    /\ heap = NewHeap
    /\ dir = NewManager
    /\ rl = JoinedRoom(0)
    /\ wr = NoWrites
    /\ gen = NoCall
    /\ net = NoTraffic
    /\ twin = NoRuns
    /\ hs = NoHandlers
    /\ lk = NoLocks

MoveNext ==
  \/ \E x \in NearCoords(rooms["abc"].Players[NewIDs[1]].X),
        y \in NearCoords(rooms["abc"].Players[NewIDs[1]].Y) :
       handleMove(NewIDs[1], x, y) /\ UNCHANGED idle
  \/ Move_UpdatePlayerPosition(NewIDs[1]) /\ UNCHANGED idle
  \/ Broadcast_GetPlayers(NewIDs[1]) /\ UNCHANGED idle
  \/ Broadcast_RLock(NewIDs[1]) /\ UNCHANGED idle
  \/ Broadcast_range(NewIDs[1], NewIDs[1]) /\ UNCHANGED idle
  \/ Broadcast_SendJSON(NewIDs[1]) /\ UNCHANGED idle

MoveSpec == MoveInit /\ [][MoveNext]_vars


(* ---------------------------------------------------------------------- *)
(* Manager.GetOrCreateRoom under every interleaving of its callers: each   *)
(* worker calls it once, for any room id, one statement at a time          *)
(* ---------------------------------------------------------------------- *)
\* a worker enters GetOrCreateRoom(roomID) and reaches m.mu.Lock()
GetOrCreateRoom_call(w, roomID) ==
  /\ dir.pc[w] = "idle"
  /\ dir' = [dir EXCEPT !.pc[w] = "lock",
                        !.roomID[w] = roomID,
                        !.during[w] = InCall(dir)]

\* m.mu.Lock() returns
GetOrCreateRoom_lock(w) ==
  /\ dir.pc[w] = "lock"
  /\ CanLock(dir.mu)
  /\ dir' = [dir EXCEPT !.mu = Lock(@, w), !.pc[w] = "lookup"]

\* if room, exists := m.rooms[roomID]; exists { return room }
GetOrCreateRoom_lookup(w) ==
  /\ dir.pc[w] = "lookup"
  /\ dir' = IF dir.roomID[w] \in DOMAIN dir.rooms
            THEN [dir EXCEPT !.ret[w] = dir.rooms[dir.roomID[w]], !.pc[w] = "unlock"]
            ELSE [dir EXCEPT !.pc[w] = "new"]

\* room := &Room{ID: roomID, Maze: game.NewMaze(10, 10), Players: make(...)}
GetOrCreateRoom_new(w, seed) ==
  /\ dir.pc[w] = "new"
  /\ dir' = [dir EXCEPT
               !.mazes = Append(@, seed),
               !.heap  = Append(@, [ID |-> dir.roomID[w],
                                    Maze |-> Len(dir.mazes) + 1,
                                    Players |-> [p \in {} |-> PlayerState(p, 0, 0)]]),
               !.room[w] = Len(dir.heap) + 1,
               !.pc[w] = "store"]

\* m.rooms[roomID] = room; return room
GetOrCreateRoom_store(w) ==
  /\ dir.pc[w] = "store"
  /\ dir' = [dir EXCEPT
               !.rooms = [i \in DOMAIN dir.rooms \cup {dir.roomID[w]} |->
                            IF i = dir.roomID[w] THEN dir.room[w] ELSE dir.rooms[i]],
               !.ret[w] = dir.room[w],
               !.pc[w] = "unlock"]

\* the deferred m.mu.Unlock(), and the return to the caller
GetOrCreateRoom_unlock(w) ==
  /\ dir.pc[w] = "unlock"
  /\ dir' = [dir EXCEPT !.mu = Unlock(@), !.pc[w] = "done"]

DirNext ==
  \/ \E w \in Workers, roomID \in RoomIDs :
       GetOrCreateRoom_call(w, roomID) /\ UNCHANGED <<server, rl, wr, gen, net, twin, hs, lk>>
  \/ \E w \in Workers : GetOrCreateRoom_lock(w) /\ UNCHANGED <<server, rl, wr, gen, net, twin, hs, lk>>
  \/ \E w \in Workers : GetOrCreateRoom_lookup(w) /\ UNCHANGED <<server, rl, wr, gen, net, twin, hs, lk>>
  \/ \E w \in Workers, seed \in Seeds : GetOrCreateRoom_new(w, seed) /\ UNCHANGED <<server, rl, wr, gen, net, twin, hs, lk>>
  \/ \E w \in Workers : GetOrCreateRoom_store(w) /\ UNCHANGED <<server, rl, wr, gen, net, twin, hs, lk>>
  \/ \E w \in Workers : GetOrCreateRoom_unlock(w) /\ UNCHANGED <<server, rl, wr, gen, net, twin, hs, lk>>

DirSpec == Init /\ [][DirNext]_vars


(* ---------------------------------------------------------------------- *)
(* One room under every interleaving of handleMove calls of its members:   *)
(* Room.UpdatePlayerPosition and, after it returned true, Room.GetPlayers, *)
(* one statement at a time; Room.RemovePlayer and Room.AddPlayer, each     *)
(* followed by the Room.GetPlayers of its handler                          *)
(* ---------------------------------------------------------------------- *)
\* the destinations of the racing moves: the cells next to the start cell
RaceMoves == {<<1, 0>>, <<0, 1>>, <<1, 1>>}

\* the positions of a worker inside UpdatePlayerPosition, and those of them
\* after r.mu.Lock() returned
Updating == {"lock", "find", "validate", "setX", "setY", "unlock"}
Validating == Updating \ {"lock"}

\* the positions of a worker that holds r.mu for writing in RemovePlayer or
\* in AddPlayer
Writing == {"delete", "store"}

\* a room of the directory with its maze, after handleJoin added the players
\* of some of the workers
RoomInit ==
  \E seed \in Seeds, joined \in SUBSET Workers :
    /\ clients = [c \in {} |-> Client(c, "")]
    /\ rooms = [i \in {} |-> 0]
    /\ before = rooms
    /\ closed = {}
    /\ sent = NoSend
    /\ last = Event("init", "", "", 0, 0, FALSE)
    /\ steps = 0
    /\ ws = NoRun
    /\ heap = NewHeap
    /\ dir = NewManager
    /\ rl = [JoinedRoom(seed) EXCEPT
               !.Players = [p \in {PlayerOf(w) : w \in joined} |-> @[p]]]
    /\ wr = NoWrites
    /\ gen = NoCall
    /\ net = NoTraffic
    /\ twin = NoRuns
    /\ hs = NoHandlers
    /\ lk = NoLocks

\* handleMove calls r.UpdatePlayerPosition(client.ID, msg.X, msg.Y)
UpdatePlayerPosition_call(w, x, y) ==
  /\ rl.pc[w] = "idle"
  /\ PlayerOf(w) \in DOMAIN rl.Players
  /\ rl' = [rl EXCEPT !.pc[w] = "lock", !.x[w] = x, !.y[w] = y,
                      !.during[w] = {v \in Workers : rl.pc[v] \in Updating}]

\* r.mu.Lock() returns
UpdatePlayerPosition_lock(w) ==
  /\ rl.pc[w] = "lock"
  /\ CanLock(rl.mu)
  /\ rl' = [rl EXCEPT !.mu = Lock(@, w), !.pc[w] = "find"]

\* player, exists := r.Players[playerID]; if !exists { return false }
UpdatePlayerPosition_find(w) ==
  /\ rl.pc[w] = "find"
  /\ rl' = IF PlayerOf(w) \in DOMAIN rl.Players
           THEN [rl EXCEPT !.pc[w] = "validate"]
           ELSE [rl EXCEPT !.ok[w] = FALSE, !.pc[w] = "unlock"]

\* if !r.Maze.CanMove(player.X, player.Y, x, y) { return false }
UpdatePlayerPosition_validate(w) ==
  /\ rl.pc[w] = "validate"
  /\ rl' = IF CanMove(MazeAt(rl.Maze), rl.Players[PlayerOf(w)].X,
                      rl.Players[PlayerOf(w)].Y, rl.x[w], rl.y[w])
           THEN [rl EXCEPT !.pc[w] = "setX"]
           ELSE [rl EXCEPT !.ok[w] = FALSE, !.pc[w] = "unlock"]

\* player.X = x
UpdatePlayerPosition_setX(w) ==
  /\ rl.pc[w] = "setX"
  /\ rl' = [rl EXCEPT !.Players[PlayerOf(w)].X = rl.x[w], !.pc[w] = "setY"]

\* player.Y = y; return true
UpdatePlayerPosition_setY(w) ==
  /\ rl.pc[w] = "setY"
  /\ rl' = [rl EXCEPT !.Players[PlayerOf(w)].Y = rl.y[w],
                      !.ok[w] = TRUE, !.pc[w] = "unlock"]

\* the deferred r.mu.Unlock(); handleMove goes on to r.GetPlayers() if the
\* call returned true and returns if not
UpdatePlayerPosition_unlock(w) ==
  /\ rl.pc[w] = "unlock"
  /\ rl' = [rl EXCEPT !.mu = Unlock(@),
                      !.pc[w] = IF rl.ok[w] THEN "rlock" ELSE "done"]

\* handleDisconnect calls r.RemovePlayer(client.ID); r.mu.Lock() returns
RemovePlayer_lock(w) ==
  /\ rl.pc[w] = "idle"
  /\ PlayerOf(w) \in DOMAIN rl.Players
  /\ CanLock(rl.mu)
  /\ rl' = [rl EXCEPT !.mu = Lock(@, w), !.pc[w] = "delete"]

\* delete(r.Players, playerID) and the deferred r.mu.Unlock(); handleDisconnect
\* goes on to r.GetPlayers()
RemovePlayer_unlock(w) ==
  /\ rl.pc[w] = "delete"
  /\ rl' = [rl EXCEPT !.Players = RemovePlayer([Players |-> rl.Players], PlayerOf(w)).Players,
                      !.mu = Unlock(@), !.pc[w] = "rlock"]

\* handleJoin calls r.AddPlayer(client.ID, 0, 0); r.mu.Lock() returns
AddPlayer_lock(w) ==
  /\ rl.pc[w] = "idle"
  /\ CanLock(rl.mu)
  /\ rl' = [rl EXCEPT !.mu = Lock(@, w), !.pc[w] = "store"]

\* r.Players[playerID] = &PlayerState{...} and the deferred r.mu.Unlock();
\* handleJoin goes on to r.GetPlayers()
AddPlayer_unlock(w) ==
  /\ rl.pc[w] = "store"
  /\ rl' = [rl EXCEPT !.Players = AddPlayer([Players |-> rl.Players, Maze |-> rl.Maze],
                                            PlayerOf(w), StartX, StartY).Players,
                      !.mu = Unlock(@), !.pc[w] = "rlock"]

\* the messages.Player{ID: p.ID, X: p.X, Y: p.Y} that GetPlayers appends for
\* the player p of the room
messages_Player_at_start(p) == Player(p.ID, StartX, StartY)

messages_Player(p) == Player(p.ID, p.X, p.Y)

\* r.mu.RLock() returns; players := make([]messages.Player, 0, len(r.Players))
GetPlayers_rlock(w) ==
  /\ rl.pc[w] = "rlock"
  /\ CanRLock(rl.mu)
  /\ rl' = [rl EXCEPT !.mu = RLock(@, w),
                      !.after[w] = {v \in Workers :
                                      rl.ok[v] /\ rl.pc[v] \in {"rlock", "copy", "done"}},
                      !.at[w] = rl.Players,
                      !.players[w] = EmptyBag,
                      !.pc[w] = "copy"]

\* for _, p := range r.Players { players = append(players, ...) }: one player
\* the range has not visited yet is appended
GetPlayers_copy(w, p) ==
  /\ rl.pc[w] = "copy"
  /\ p \in DOMAIN rl.Players
  /\ \A e \in BagToSet(rl.players[w]) : e.ID # p
  /\ rl' = [rl EXCEPT !.players[w] = @ (+) SetToBag({messages_Player(rl.Players[p])})]

\* the range loop ends; the deferred r.mu.RUnlock(); return players
GetPlayers_runlock(w) ==
  /\ rl.pc[w] = "copy"
  /\ \A p \in DOMAIN rl.Players :
       \E e \in BagToSet(rl.players[w]) : e.ID = p
  /\ rl' = [rl EXCEPT !.mu = RUnlock(@, w), !.pc[w] = "done"]

RoomNext ==
  \/ \E w \in Workers, d \in RaceMoves :
       UpdatePlayerPosition_call(w, d[1], d[2]) /\ UNCHANGED <<server, dir, wr, gen, net, twin, hs, lk>>
  \/ \E w \in Workers : UpdatePlayerPosition_lock(w) /\ UNCHANGED <<server, dir, wr, gen, net, twin, hs, lk>>
  \/ \E w \in Workers : UpdatePlayerPosition_find(w) /\ UNCHANGED <<server, dir, wr, gen, net, twin, hs, lk>>
  \/ \E w \in Workers : UpdatePlayerPosition_validate(w) /\ UNCHANGED <<server, dir, wr, gen, net, twin, hs, lk>>
  \/ \E w \in Workers : UpdatePlayerPosition_setX(w) /\ UNCHANGED <<server, dir, wr, gen, net, twin, hs, lk>>
  \/ \E w \in Workers : UpdatePlayerPosition_setY(w) /\ UNCHANGED <<server, dir, wr, gen, net, twin, hs, lk>>
  \/ \E w \in Workers : UpdatePlayerPosition_unlock(w) /\ UNCHANGED <<server, dir, wr, gen, net, twin, hs, lk>>
  \/ \E w \in Workers : GetPlayers_rlock(w) /\ UNCHANGED <<server, dir, wr, gen, net, twin, hs, lk>>
  \/ \E w \in Workers, p \in IDs : GetPlayers_copy(w, p) /\ UNCHANGED <<server, dir, wr, gen, net, twin, hs, lk>>
  \/ \E w \in Workers : GetPlayers_runlock(w) /\ UNCHANGED <<server, dir, wr, gen, net, twin, hs, lk>>
  \/ \E w \in Workers : RemovePlayer_lock(w) /\ UNCHANGED <<server, dir, wr, gen, net, twin, hs, lk>>
  \/ \E w \in Workers : RemovePlayer_unlock(w) /\ UNCHANGED <<server, dir, wr, gen, net, twin, hs, lk>>
  \/ \E w \in Workers : AddPlayer_lock(w) /\ UNCHANGED <<server, dir, wr, gen, net, twin, hs, lk>>
  \/ \E w \in Workers : AddPlayer_unlock(w) /\ UNCHANGED <<server, dir, wr, gen, net, twin, hs, lk>>

RoomSpec == RoomInit /\ [][RoomNext]_vars


(* ---------------------------------------------------------------------- *)
(* The writes to the connections under every interleaving: each worker     *)
(* sends one frame to its own connection (connected, mazeData) or           *)
(* broadcasts one (playerJoined, playerLeft, gameState) to the connections *)
(* broadcastToRoom selects, Client.SendJSON one statement at a time.       *)
(* broadcastToRoom holds clientsMu for reading, which broadcasts share;    *)
(* SendJSON does not look at the message it is given.                      *)
(* ---------------------------------------------------------------------- *)
\* client.SendJSON(...) of handleWebSocket and of handleJoin
DirectSend(w) ==
  /\ wr.pc[w] = "idle"
  /\ wr' = [wr EXCEPT !.pc[w] = "range", !.from[w] = "SendJSON",
                      !.todo[w] = {PlayerOf(w)}]

\* broadcastToRoom(roomID, msg, excludeID): the clients of the table that
\* pass its test are the ones it will call SendJSON on
broadcastToRoom_call(w, recipients) ==
  /\ wr.pc[w] = "idle"
  /\ wr' = [wr EXCEPT !.pc[w] = "range", !.from[w] = "broadcastToRoom",
                      !.todo[w] = recipients]

\* the next c.SendJSON(msg) is called and reaches c.mu.Lock()
SendJSON_call(w, c) ==
  /\ wr.pc[w] = "range"
  /\ c \in wr.todo[w]
  /\ wr' = [wr EXCEPT !.pc[w] = "lock", !.c[w] = c]

\* c.mu.Lock() returns
SendJSON_lock(w) ==
  /\ wr.pc[w] = "lock"
  /\ MutexFree(wr.mu[wr.c[w]])
  /\ wr' = [wr EXCEPT !.mu[wr.c[w]] = w, !.pc[w] = "write"]

\* c.Conn.WriteJSON(msg) starts to write the frame
WriteJSON_begin(w) ==
  /\ wr.pc[w] = "write"
  /\ wr' = [wr EXCEPT !.writing[wr.c[w]] = @ \cup {w}, !.pc[w] = "writing"]

\* c.Conn.WriteJSON(msg) returns
WriteJSON_end(w) ==
  /\ wr.pc[w] = "writing"
  /\ wr' = [wr EXCEPT !.writing[wr.c[w]] = @ \ {w}, !.pc[w] = "unlock"]

\* the deferred c.mu.Unlock(), and the return to the loop or the handler
SendJSON_unlock(w) ==
  /\ wr.pc[w] = "unlock"
  /\ wr' = [wr EXCEPT !.mu[wr.c[w]] = Mutex,
                      !.todo[w] = @ \ {wr.c[w]},
                      !.pc[w] = IF wr.todo[w] = {wr.c[w]} THEN "done" ELSE "range"]

\* a broadcast that no client of the table passes the test of
broadcastToRoom_none(w) ==
  /\ wr.pc[w] = "range"
  /\ wr.todo[w] = {}
  /\ wr' = [wr EXCEPT !.pc[w] = "done"]

WriteNext ==
  \/ \E w \in Workers : DirectSend(w) /\ UNCHANGED <<server, dir, rl, gen, net, twin, hs, lk>>
  \/ \E w \in Workers, recipients \in SUBSET Conns :
       broadcastToRoom_call(w, recipients) /\ UNCHANGED <<server, dir, rl, gen, net, twin, hs, lk>>
  \/ \E w \in Workers, c \in Conns : SendJSON_call(w, c) /\ UNCHANGED <<server, dir, rl, gen, net, twin, hs, lk>>
  \/ \E w \in Workers : SendJSON_lock(w) /\ UNCHANGED <<server, dir, rl, gen, net, twin, hs, lk>>
  \/ \E w \in Workers : WriteJSON_begin(w) /\ UNCHANGED <<server, dir, rl, gen, net, twin, hs, lk>>
  \/ \E w \in Workers : WriteJSON_end(w) /\ UNCHANGED <<server, dir, rl, gen, net, twin, hs, lk>>
  \/ \E w \in Workers : SendJSON_unlock(w) /\ UNCHANGED <<server, dir, rl, gen, net, twin, hs, lk>>
  \/ \E w \in Workers : broadcastToRoom_none(w) /\ UNCHANGED <<server, dir, rl, gen, net, twin, hs, lk>>

WriteSpec == Init /\ [][WriteNext]_vars


(* ---------------------------------------------------------------------- *)
(* One call of NewMaze for any small width and height, positive or not,    *)
(* followed through the loop of generate with every index rand.Intn can    *)
(* return                                                                  *)
(* ---------------------------------------------------------------------- *)
BadDims == {-1, 0}

GenInit ==
  \E width \in BadDims \cup 1..MaxGenWidth, height \in BadDims \cup 1..MaxGenHeight :
    /\ clients = [c \in {} |-> Client(c, "")]
    /\ rooms = [i \in {} |-> 0]
    /\ before = rooms
    /\ closed = {}
    /\ sent = NoSend
    /\ last = Event("init", "", "", 0, 0, FALSE)
    /\ steps = 0
    /\ ws = NoRun
    /\ heap = NewHeap
    /\ dir = NewManager
    /\ rl = JoinedRoom(0)
    /\ wr = NoWrites
    /\ gen = [NoCall EXCEPT !.status = "call", !.width = width, !.height = height]
    /\ net = NoTraffic
    /\ twin = NoRuns
    /\ hs = NoHandlers
    /\ lk = NoLocks

\* NewMaze(width, height) runs up to the loop of generate, or panics
NewMaze_begin ==
  /\ gen.status = "call"
  /\ gen' = NewMaze_call(gen.width, gen.height)

\* the indices rand.Intn(len(neighbors)) can return at the top of the stack
\* (the index is not drawn when there is no neighbour)
Draws(s) ==
  LET current   == s.stack[Len(s.stack)]
      neighbors == getUnvisitedNeighbors(s.m, current.x, current.y)
  IN  IF Len(neighbors) = 0 THEN {0} ELSE 0..(Len(neighbors) - 1)

\* one iteration of for len(stack) > 0
generate_iteration(idx) ==
  /\ gen.status = "generate"
  /\ Len(gen.stack) > 0
  /\ idx \in Draws(gen)
  /\ LET s == generateStep([m |-> gen.m, stack |-> gen.stack, draws |-> gen.draws], idx)
     IN  gen' = [gen EXCEPT !.m = s.m, !.stack = s.stack, !.draws = s.draws]

\* the loop ends, generate returns and NewMaze returns the maze
generate_return ==
  /\ gen.status = "generate"
  /\ Len(gen.stack) = 0
  /\ gen' = [gen EXCEPT !.status = "returned"]

GenNext ==
  \/ NewMaze_begin /\ UNCHANGED <<server, dir, rl, wr, net, twin, hs, lk>>
  \/ \E idx \in 0..3 : generate_iteration(idx) /\ UNCHANGED <<server, dir, rl, wr, net, twin, hs, lk>>
  \/ generate_return /\ UNCHANGED <<server, dir, rl, wr, net, twin, hs, lk>>

GenSpec == GenInit /\ [][GenNext]_vars

\* the goroutine that called NewMaze keeps running: the loop takes its next
\* iteration, and returns once its condition fails
GenLive == GenSpec /\ WF_vars(GenNext)


(* ---------------------------------------------------------------------- *)
(* The read loop of handleWebSocket, frame by frame, with frames that do   *)
(* not decode and sockets that break: a write to a broken socket fails,    *)
(* and the next read of its worker fails                                   *)
(* ---------------------------------------------------------------------- *)
\* the frames the connections send
Frames ==
  {Frame(FALSE, "", "", Number(0, ""), Number(0, "")),
   Frame(TRUE, "attack", "", Number(0, ""), Number(0, "")),
   Frame(TRUE, "join", "", Number(0, ""), Number(0, "")),
   Frame(TRUE, "join", "abc", Number(0, ""), Number(0, "")),
   Frame(TRUE, "move", "", Number(1, ""), Number(0, "")),
   Frame(TRUE, "move", "", Number(0, ""), Number(1, "")),
   Frame(TRUE, "move", "", Number(1, ".5"), Number(0, "")),
   Frame(TRUE, "move", "", Number(0, ""), Number(1, ".0"))}

\* Conn.WriteJSON returns an error and writes nothing on a broken socket and
\* on a connection that conn.Close() has closed (the worker of a connection
\* that a panic ended has returned through the deferred conn.Close(), and the
\* connection is still in clients); SendJSON discards the error, so that its
\* callers go on
Deliver(out, broken, shut) ==
  [c \in IDs |-> IF c \in broken \cup shut THEN <<>> ELSE out[c]]

\* the loop goes on to the next ReadMessage without calling a handler
continue(id) ==
  /\ steps < MaxSteps
  /\ ws[id].pc = "ReadMessage"
  /\ steps' = steps + 1
  /\ last' = Event("continue", id, clients[id].RoomID, 0, 0, FALSE)
  /\ before' = rooms /\ UNCHANGED heap
  /\ sent' = NoSend
  /\ UNCHANGED <<clients, rooms, closed, ws>>

\* conn.ReadMessage returns a frame; json.Unmarshal; switch msg.Type: the
\* handler is called, or the loop goes on
ReadMessage(id, frame) ==
  /\ steps < MaxFrames
  /\ id \in DOMAIN clients
  /\ id \notin net.broken
  /\ LET res == Unmarshal(frame)
     IN  IF res.err # "" THEN continue(id)
         ELSE IF res.msg.Type = "join" THEN handleJoin(id, res.msg.RoomID)
         ELSE IF res.msg.Type = "move" THEN handleMove(id, res.msg.X, res.msg.Y)
         ELSE continue(id)
  /\ net' = [net EXCEPT !.frame = frame, !.delivered = Deliver(sent', net.broken, closed)]

\* handleWebSocket up to clientsMu.Unlock()
Accept(id) ==
  /\ Connect(id)
  /\ net' = [net EXCEPT !.frame = NoFrame, !.delivered = Deliver(sent', net.broken, closed)]

\* a step of a handler that has been called, which reads no frame; what it
\* writes to a broken socket is lost
Handle ==
  /\ Work
  /\ net' = [net EXCEPT !.frame = NoFrame, !.delivered = Deliver(sent', net.broken, closed)]

\* the socket of a connection breaks
Break(id) ==
  /\ id \in DOMAIN clients
  /\ id \notin net.broken
  /\ net' = [net EXCEPT !.broken = @ \cup {id}]
  /\ UNCHANGED server

\* conn.ReadMessage returns an error (the socket broke, or the peer closed):
\* break, and handleDisconnect is called
ReadError(id) ==
  /\ steps < MaxFrames
  /\ handleDisconnect(id)
  /\ net' = [net EXCEPT !.frame = NoFrame,
                        !.broken = @ \ {id},
                        !.delivered = Deliver(sent', net.broken \ {id}, closed)]

NetNext ==
  \/ \E id \in IDs : Accept(id) /\ UNCHANGED <<dir, rl, wr, gen, twin, hs, lk>>
  \/ \E id \in IDs, frame \in Frames : ReadMessage(id, frame) /\ UNCHANGED <<dir, rl, wr, gen, twin, hs, lk>>
  \/ \E id \in IDs : Break(id) /\ UNCHANGED <<dir, rl, wr, gen, twin, hs, lk>>
  \/ \E id \in IDs : ReadError(id) /\ UNCHANGED <<dir, rl, wr, gen, twin, hs, lk>>
  \/ Handle /\ UNCHANGED <<dir, rl, wr, gen, twin, hs, lk>>

NetSpec == Init /\ [][NetNext]_vars


(* ---------------------------------------------------------------------- *)
(* Two calls of NewMaze with the same width and height in one process,     *)
(* both drawing from the package-level source of math/rand, their loops    *)
(* interleaved in every way                                                *)
(* ---------------------------------------------------------------------- *)
TwinInit ==
  \E width \in 1..MaxGenWidth, height \in 1..MaxGenHeight, seed \in Seeds :
    /\ clients = [c \in {} |-> Client(c, "")]
    /\ rooms = [i \in {} |-> 0]
    /\ before = rooms
    /\ closed = {}
    /\ sent = NoSend
    /\ last = Event("init", "", "", 0, 0, FALSE)
    /\ steps = 0
    /\ ws = NoRun
    /\ heap = NewHeap
    /\ dir = NewManager
    /\ rl = JoinedRoom(0)
    /\ wr = NoWrites
    /\ gen = NoCall
    /\ net = NoTraffic
    /\ twin = [r \in 1..2 |-> RunOf(NewMaze_call(width, height), seed)]
    /\ hs = NoHandlers
    /\ lk = NoLocks

\* how many values the source has given out when the run draws from it:
\* rand.Intn reads the one source of the process, which every draw of either
\* call moves on
DrawPosition(run, other) == run.draws + other.draws

\* one iteration of for len(stack) > 0 of run r
twin_iteration(r) ==
  /\ twin[r].status = "generate"
  /\ Len(twin[r].stack) > 0
  /\ LET run == twin[r]
         idx == generateDraw([m |-> run.m, stack |-> run.stack,
                              draws |-> DrawPosition(run, twin[3 - r])], run.seed)
         s   == generateStep([m |-> run.m, stack |-> run.stack, draws |-> run.draws], idx)
     IN  twin' = [twin EXCEPT ![r].m = s.m, ![r].stack = s.stack, ![r].draws = s.draws]

\* the loop of run r ends and its NewMaze returns the maze
twin_return(r) ==
  /\ twin[r].status = "generate"
  /\ Len(twin[r].stack) = 0
  /\ twin' = [twin EXCEPT ![r].status = "returned"]

TwinNext ==
  \/ \E r \in 1..2 : twin_iteration(r) /\ UNCHANGED <<server, dir, rl, wr, gen, net, hs, lk>>
  \/ \E r \in 1..2 : twin_return(r) /\ UNCHANGED <<server, dir, rl, wr, gen, net, hs, lk>>

TwinSpec == TwinInit /\ [][TwinNext]_vars

(* ---------------------------------------------------------------------- *)
(* The handlers of the connections of one room under every interleaving:   *)
(* handleJoin, handleMove and handleDisconnect, one call into the room,    *)
(* one write to a connection and one client of the range of               *)
(* broadcastToRoom at a time. Each call into the room runs under r.mu and  *)
(* each write under Client.mu; nothing is held from one to the next except *)
(* clientsMu, which broadcastToRoom holds for reading over its range. The  *)
(* test of the range reads Client.RoomID with no lock against the write of *)
(* handleJoin: the read can panic, which ends the broadcasting worker with *)
(* its connection closed and still in the table; a write to a closed       *)
(* connection fails.                                                       *)
(* ---------------------------------------------------------------------- *)
\* the destination of the moves: the cell below the start cell
HandlerMoves == {<<0, 1>>}

\* no handler is running
Quiescent(h) == \A w \in Workers : h.pc[w] \in {"idle", "closed"}

\* a worker holds clientsMu for reading: it is in the range of
\* broadcastToRoom, or its test has panicked and the deferred
\* clientsMu.RUnlock() has not run yet
Ranging(h) == {w \in Workers : h.pc[w] \in {"range", "panic"}}

\* the connections that conn.Close() has closed: their worker has ended
Closed(h) == {PlayerOf(w) : w \in {v \in Workers : h.pc[v] = "closed"}}

\* the room's current Snapshot, as the set of its elements
CurrentList(h) == UNION {Elements(players) : players \in GetPlayers(h.room)}

\* the players list last written to every open connection bound to the room
\* is the room's current Snapshot
ListsCurrent(h) ==
  \A c \in h.table \ Closed(h) :
    h.RoomID[c] = HandlerRoom => h.lastList[c] = CurrentList(h)

\* a handler begins: it is alone if no other is running, and no handler that
\* is running is alone any longer
Begin(h, w, kind, pc) ==
  [h EXCEPT !.pc[w] = pc, !.kind[w] = kind, !.begun = @ + 1, !.ended = "",
            !.alone = [v \in Workers |-> IF v = w THEN Quiescent(h) ELSE FALSE],
            !.stale = Quiescent(h) /\ ~ListsCurrent(h)]

\* a handler returns to the read loop, or ends its worker
Return(h, w, pc) ==
  [h EXCEPT !.pc[w] = pc, !.kind[w] = "", !.x[w] = 0, !.y[w] = 0,
            !.players[w] = {}, !.todo[w] = {}, !.alone[w] = FALSE,
            !.ended = IF h.pc[w] # "return" THEN "silent"
                      ELSE IF h.alone[w] THEN "alone" ELSE "overlapped"]

\* c.SendJSON(msg): the frame is written to connection c; on a connection
\* that is closed WriteJSON returns an error, which SendJSON discards
WriteTo(h, c, type, players) ==
  IF c \in Closed(h) THEN h
  ELSE [h EXCEPT !.lastList[c] = players,
                 !.first[c] = IF @ = "" THEN type ELSE @]

\* the client the broadcast of a handler excludes
ExcludeID(h, w) == IF h.kind[w] = "join" THEN PlayerOf(w) ELSE ""

\* broadcastToRoom that writes to no client
Selected_nobody(h, c, roomID, excludeID) == FALSE

\* if c.RoomID == roomID && c.ID != excludeID
Selected(h, c, roomID, excludeID) ==
  h.RoomID[c] = roomID /\ c # excludeID

HandlerInit ==
  \E joined \in SUBSET Workers :
    /\ clients = [c \in {} |-> Client(c, "")]
    /\ rooms = [i \in {} |-> 0]
    /\ before = rooms
    /\ closed = {}
    /\ sent = NoSend
    /\ last = Event("init", "", "", 0, 0, FALSE)
    /\ steps = 0
    /\ ws = NoRun
    /\ heap = NewHeap
    /\ dir = NewManager
    /\ rl = JoinedRoom(0)
    /\ wr = NoWrites
    /\ gen = NoCall
    /\ net = NoTraffic
    /\ twin = NoRuns
    /\ hs = Handlers(joined)
    /\ lk = NoLocks

\* the read loop calls handleJoin(client, msg)
handleJoin_begin(w) ==
  /\ hs.pc[w] = "idle"
  /\ hs.begun < MaxHandlers
  /\ hs' = Begin(hs, w, "join", "RoomID")

\* handleJoin: client.RoomID = msg.RoomID, written with no lock held
handleJoin_RoomID(w) ==
  /\ hs.pc[w] = "RoomID"
  /\ hs' = [hs EXCEPT !.RoomID[PlayerOf(w)] = HandlerRoom, !.pc[w] = "AddPlayer"]

\* r := roomManager.GetOrCreateRoom(msg.RoomID); r.AddPlayer(client.ID, 0, 0)
handleJoin_AddPlayer(w) ==
  /\ hs.pc[w] = "AddPlayer"
  /\ hs' = [hs EXCEPT !.room = AddPlayer(@, PlayerOf(w), StartX, StartY),
                      !.pc[w] = "mazeData"]

\* the r.GetPlayers() of the mazeData frame
handleJoin_GetPlayers(w) ==
  /\ hs.pc[w] = "mazeData"
  /\ \E players \in GetPlayers(hs.room) :
       hs' = [hs EXCEPT !.players[w] = Elements(players), !.pc[w] = "SendJSON"]

\* client.SendJSON(messages.ServerMessage{Type: "mazeData", ...})
handleJoin_SendJSON(w) ==
  /\ hs.pc[w] = "SendJSON"
  /\ hs' = [WriteTo(hs, PlayerOf(w), "mazeData", hs.players[w]) EXCEPT
              !.pc[w] = "GetPlayers"]

\* handleMove: client.RoomID is not "" and the room exists
handleMove_GetRoom(w, x, y) ==
  /\ hs.pc[w] = "idle"
  /\ hs.begun < MaxHandlers
  /\ hs.RoomID[PlayerOf(w)] # ""
  /\ hs' = [Begin(hs, w, "move", "UpdatePlayerPosition") EXCEPT !.x[w] = x, !.y[w] = y]

\* if r.UpdatePlayerPosition(client.ID, msg.X, msg.Y) { ... }
handleMove_UpdatePlayerPosition(w) ==
  /\ hs.pc[w] = "UpdatePlayerPosition"
  /\ LET res == UpdatePlayerPosition(hs.room, PlayerOf(w), hs.x[w], hs.y[w])
     IN  hs' = IF res.ok
               THEN [hs EXCEPT !.room = res.room, !.pc[w] = "GetPlayers"]
               ELSE [Return(hs, w, "idle") EXCEPT !.room = res.room]

\* the read loop of the connection ends and handleDisconnect begins
handleDisconnect_begin(w) ==
  /\ hs.pc[w] = "idle"
  /\ hs.begun < MaxHandlers
  /\ hs' = Begin(hs, w, "disconnect", "delete")

\* clientsMu.Lock(); delete(clients, client.ID); clientsMu.Unlock(), which
\* waits for the broadcasts that hold clientsMu for reading; the handler ends
\* here if client.RoomID is ""
handleDisconnect_delete(w) ==
  /\ hs.pc[w] = "delete"
  /\ Ranging(hs) = {}
  /\ hs' = IF hs.RoomID[PlayerOf(w)] = ""
           THEN [Return(hs, w, "closed") EXCEPT !.table = @ \ {PlayerOf(w)}]
           ELSE [hs EXCEPT !.table = @ \ {PlayerOf(w)}, !.pc[w] = "RemovePlayer"]

\* r.RemovePlayer(client.ID)
handleDisconnect_RemovePlayer(w) ==
  /\ hs.pc[w] = "RemovePlayer"
  /\ hs' = [hs EXCEPT !.room = RemovePlayer(@, PlayerOf(w)), !.pc[w] = "GetPlayers"]

\* the r.GetPlayers() of the frame that is broadcast
broadcast_GetPlayers(w) ==
  /\ hs.pc[w] = "GetPlayers"
  /\ \E players \in GetPlayers(hs.room) :
       hs' = [hs EXCEPT !.players[w] = Elements(players), !.pc[w] = "RLock"]

\* broadcastToRoom: clientsMu.RLock() and the start of the range over clients
broadcastToRoom_RLock(w) ==
  /\ hs.pc[w] = "RLock"
  /\ hs' = [hs EXCEPT !.todo[w] = hs.table, !.pc[w] = "range"]

\* one client of the range when the test c.RoomID == roomID returns a value:
\* c.SendJSON(msg) if it passes the test, which delivers nothing to a closed
\* connection
broadcastToRoom_range(w, c) ==
  /\ hs.pc[w] = "range"
  /\ c \in hs.todo[w]
  /\ LET h == IF Selected(hs, c, HandlerRoom, ExcludeID(hs, w))
              THEN WriteTo(hs, c, BroadcastType(hs.kind[w]), hs.players[w])
              ELSE hs
     IN  hs' = [h EXCEPT !.todo[w] = @ \ {c}]

\* the range is over: the deferred clientsMu.RUnlock() of broadcastToRoom
broadcastToRoom_RUnlock(w) ==
  /\ hs.pc[w] = "range"
  /\ hs.todo[w] = {}
  /\ hs' = [hs EXCEPT !.pc[w] = "return"]

\* broadcastToRoom and the handler return: handleJoin and handleMove to the
\* read loop, handleDisconnect to handleWebSocket, which returns (conn.Close())
broadcastToRoom_return(w) ==
  /\ hs.pc[w] = "return"
  /\ hs' = Return(hs, w, IF hs.kind[w] = "disconnect" THEN "closed" ELSE "idle")

\* the test c.RoomID == roomID reads c.RoomID while the worker of c writes it
\* in handleJoin, no lock ordering the two: a read that takes the length of
\* the new string with the nil pointer of the empty one panics in the
\* broadcasting goroutine: the range is abandoned and the goroutine unwinds,
\* clientsMu still read-locked and its connection still open
broadcastToRoom_panic(w, c) ==
  /\ hs.pc[w] = "range"
  /\ c \in hs.todo[w]
  /\ \E v \in Workers : PlayerOf(v) = c /\ hs.pc[v] = "RoomID"
  /\ Torn(hs.RoomID[c], HandlerRoom, HandlerRoom)
  /\ hs' = [hs EXCEPT !.pc[w] = "panic", !.x[w] = 0, !.y[w] = 0,
                      !.players[w] = {}, !.todo[w] = {}]

\* the unwinding runs the deferred clientsMu.RUnlock() of broadcastToRoom
broadcastToRoom_panic_RUnlock(w) ==
  /\ hs.pc[w] = "panic"
  /\ hs' = [hs EXCEPT !.pc[w] = "conn.Close"]

\* the unwinding runs the deferred conn.Close() of handleWebSocket and
\* net/http recovers the panic: handleDisconnect is not called, so the
\* connection stays in the table, closed, and its player in the room
handleWebSocket_Close(w) ==
  /\ hs.pc[w] = "conn.Close"
  /\ hs' = [Return(hs, w, "closed") EXCEPT !.ended = "panic"]

HandlerNext ==
  \/ \E w \in Workers : handleJoin_begin(w) /\ UNCHANGED <<server, dir, rl, wr, gen, net, twin, lk>>
  \/ \E w \in Workers, c \in Conns :
       broadcastToRoom_panic(w, c) /\ UNCHANGED <<server, dir, rl, wr, gen, net, twin, lk>>
  \/ \E w \in Workers : handleJoin_RoomID(w) /\ UNCHANGED <<server, dir, rl, wr, gen, net, twin, lk>>
  \/ \E w \in Workers : handleJoin_AddPlayer(w) /\ UNCHANGED <<server, dir, rl, wr, gen, net, twin, lk>>
  \/ \E w \in Workers : handleJoin_GetPlayers(w) /\ UNCHANGED <<server, dir, rl, wr, gen, net, twin, lk>>
  \/ \E w \in Workers : handleJoin_SendJSON(w) /\ UNCHANGED <<server, dir, rl, wr, gen, net, twin, lk>>
  \/ \E w \in Workers, d \in HandlerMoves :
       handleMove_GetRoom(w, d[1], d[2]) /\ UNCHANGED <<server, dir, rl, wr, gen, net, twin, lk>>
  \/ \E w \in Workers : handleMove_UpdatePlayerPosition(w) /\ UNCHANGED <<server, dir, rl, wr, gen, net, twin, lk>>
  \/ \E w \in Workers : handleDisconnect_begin(w) /\ UNCHANGED <<server, dir, rl, wr, gen, net, twin, lk>>
  \/ \E w \in Workers : handleDisconnect_delete(w) /\ UNCHANGED <<server, dir, rl, wr, gen, net, twin, lk>>
  \/ \E w \in Workers : handleDisconnect_RemovePlayer(w) /\ UNCHANGED <<server, dir, rl, wr, gen, net, twin, lk>>
  \/ \E w \in Workers : broadcast_GetPlayers(w) /\ UNCHANGED <<server, dir, rl, wr, gen, net, twin, lk>>
  \/ \E w \in Workers : broadcastToRoom_RLock(w) /\ UNCHANGED <<server, dir, rl, wr, gen, net, twin, lk>>
  \/ \E w \in Workers, c \in Conns :
       broadcastToRoom_range(w, c) /\ UNCHANGED <<server, dir, rl, wr, gen, net, twin, lk>>
  \/ \E w \in Workers : broadcastToRoom_RUnlock(w) /\ UNCHANGED <<server, dir, rl, wr, gen, net, twin, lk>>
  \/ \E w \in Workers : broadcastToRoom_return(w) /\ UNCHANGED <<server, dir, rl, wr, gen, net, twin, lk>>
  \/ \E w \in Workers : broadcastToRoom_panic_RUnlock(w) /\ UNCHANGED <<server, dir, rl, wr, gen, net, twin, lk>>
  \/ \E w \in Workers : handleWebSocket_Close(w) /\ UNCHANGED <<server, dir, rl, wr, gen, net, twin, lk>>

HandlerSpec == HandlerInit /\ [][HandlerNext]_vars

(* ---------------------------------------------------------------------- *)
(* The locks of the server under every interleaving of the handlers:       *)
(* roomManager.mu, the mu of each room, clientsMu and the mu of each       *)
(* Client. A handler is the sequence of the statements it executes that    *)
(* take or release a lock, write to a connection or change the connection  *)
(* table. A worker that has called Lock() of a sync.RWMutex and waits in   *)
(* it for the readers to leave keeps new readers out; a worker that has    *)
(* not called it yet does not. A write to a connection that has stopped    *)
(* reading does not return.                                                *)
(* ---------------------------------------------------------------------- *)
\* one statement: its operation, the RWMutex or the room it names, the
\* connection it names and, for the range of broadcastToRoom, the clients it
\* has still to visit
Stmt(op, mu, c) == [op |-> op, mu |-> mu, c |-> c, todo |-> {}]

NoMu == Mu("", "")

\* a SendJSON that takes clientsMu while it holds c.mu
SendJSON_code_nested(c) ==
  <<Stmt("c.mu.Lock", NoMu, c),
    Stmt("Lock", Mu("clients", ""), ""), Stmt("Unlock", Mu("clients", ""), ""),
    Stmt("WriteJSON", NoMu, c)>>

\* Client.SendJSON: c.mu.Lock(); then c.Conn.WriteJSON(msg) and the deferred
\* c.mu.Unlock()
SendJSON_code(c) ==
  <<Stmt("c.mu.Lock", NoMu, c), Stmt("WriteJSON", NoMu, c)>>

GetOrCreateRoom_code ==
  <<Stmt("Lock", Mu("roomManager", ""), ""), Stmt("Unlock", Mu("roomManager", ""), "")>>

GetRoom_code ==
  <<Stmt("RLock", Mu("roomManager", ""), ""), Stmt("RUnlock", Mu("roomManager", ""), "")>>

\* Room.AddPlayer, Room.RemovePlayer and Room.UpdatePlayerPosition
Room_write_code(roomID) ==
  <<Stmt("Lock", Mu("Room", roomID), ""), Stmt("Unlock", Mu("Room", roomID), "")>>

GetPlayers_code(roomID) ==
  <<Stmt("RLock", Mu("Room", roomID), ""), Stmt("RUnlock", Mu("Room", roomID), "")>>

\* broadcastToRoom(roomID, msg, excludeID), after its argument r.GetPlayers():
\* clientsMu.RLock(), then the range and the deferred clientsMu.RUnlock()
broadcastToRoom_code(roomID, excludeID) ==
  GetPlayers_code(roomID)
    \o <<Stmt("RLock", Mu("clients", ""), ""), Stmt("range", Mu("Room", roomID), excludeID)>>

\* handleWebSocket up to the read loop: the client is registered and sent its id
handleWebSocket_code(c) ==
  <<Stmt("Lock", Mu("clients", ""), ""), Stmt("store", Mu("clients", ""), c)>>
    \o SendJSON_code(c)

\* handleJoin: client.RoomID = msg.RoomID, under no lock, and the rest
handleJoin_code(c, roomID) ==
  <<Stmt("RoomID", Mu("Room", roomID), c)>>
    \o GetOrCreateRoom_code \o Room_write_code(roomID)
    \o GetPlayers_code(roomID) \o SendJSON_code(c)
    \o broadcastToRoom_code(roomID, c)

\* handleMove of a client with RoomID roomID, whose UpdatePlayerPosition
\* returns ok
handleMove_code(c, roomID, ok) ==
  IF roomID = "" THEN <<>>
  ELSE GetRoom_code \o Room_write_code(roomID)
         \o (IF ok THEN broadcastToRoom_code(roomID, "") ELSE <<>>)

handleDisconnect_code(c, roomID) ==
  <<Stmt("Lock", Mu("clients", ""), ""), Stmt("delete", Mu("clients", ""), c)>>
    \o (IF roomID = "" THEN <<>>
        ELSE GetRoom_code \o Room_write_code(roomID) \o broadcastToRoom_code(roomID, ""))

\* the room the connections of the table have joined
LockRoom == "abc"

\* the locks of LockInit and StallInit: the connections of table are in the
\* table and have joined the room of RoomID
Locks(table, RoomID, stalled) ==
  /\ clients = [c \in {} |-> Client(c, "")]
  /\ rooms = [i \in {} |-> 0]
  /\ before = rooms
  /\ closed = {}
  /\ sent = NoSend
  /\ last = Event("init", "", "", 0, 0, FALSE)
  /\ steps = 0
  /\ ws = NoRun
  /\ heap = NewHeap
  /\ dir = NewManager
  /\ rl = JoinedRoom(0)
  /\ wr = NoWrites
  /\ gen = NoCall
  /\ net = NoTraffic
  /\ twin = NoRuns
  /\ hs = NoHandlers
  /\ lk = [NoLocks EXCEPT
             !.table = table,
             !.RoomID = [c \in Conns |-> IF c \in table THEN RoomID[c] ELSE ""],
             !.stalled = stalled]

\* the connections of the workers are in the table and have joined LockRoom,
\* but for the last one, which may not have been accepted yet; every
\* connection reads what is written to it
LockInit ==
  \E table \in {Conns, Conns \ {PlayerOf(NumWorkers)}} :
    Locks(table, [c \in Conns |-> LockRoom], {})

\* the room of the connections other than the first
OtherRoom == "xyz"

\* the first connection has joined LockRoom and has stopped reading; the
\* others have joined OtherRoom, but for the last one, which may not have been
\* accepted yet
StallInit ==
  \E table \in {Conns, Conns \ {PlayerOf(NumWorkers)}} :
    Locks(table, [c \in Conns |-> IF c = PlayerOf(1) THEN LockRoom ELSE OtherRoom],
          {PlayerOf(1)})

\* the worker's handler is running
Running(w) == lk.code[w] # <<>>

\* the statement the worker is at
At(w) == Head(lk.code[w])

\* the worker goes on to its next statement
Done(w) == [lk EXCEPT !.code[w] = Tail(@)]

\* the workers that have called mu.Lock() and wait in it for the readers of mu
\* to leave: new readers wait for them
Waiting(mu) == {w \in Workers : lk.waiting[mu] = w}

\* a connection is accepted: its worker runs handleWebSocket
handleWebSocket_call(w) ==
  /\ lk.called[w] = ""
  /\ PlayerOf(w) \notin lk.table
  /\ lk' = [lk EXCEPT !.called[w] = "connect",
                      !.code[w] = handleWebSocket_code(PlayerOf(w))]

\* the read loop of a connection of the table reads a join of any room, a
\* move (accepted or not) or an error
handleJoin_call(w, roomID) ==
  /\ lk.called[w] = ""
  /\ PlayerOf(w) \in lk.table
  /\ lk' = [lk EXCEPT !.called[w] = "join",
                      !.code[w] = handleJoin_code(PlayerOf(w), roomID)]

handleMove_call(w, ok) ==
  /\ lk.called[w] = ""
  /\ PlayerOf(w) \in lk.table
  /\ lk.RoomID[PlayerOf(w)] # ""
  /\ lk' = [lk EXCEPT !.called[w] = "move",
                      !.code[w] = handleMove_code(PlayerOf(w), lk.RoomID[PlayerOf(w)], ok)]

handleDisconnect_call(w) ==
  /\ lk.called[w] = ""
  /\ PlayerOf(w) \in lk.table
  /\ lk' = [lk EXCEPT !.called[w] = "disconnect",
                      !.code[w] = handleDisconnect_code(PlayerOf(w), lk.RoomID[PlayerOf(w)])]

\* mu.Lock() is called while mu is read-locked and no other writer is in it:
\* the worker waits in it for the readers to leave
RWMutex_Lock_wait(w) ==
  /\ Running(w)
  /\ At(w).op = "Lock"
  /\ lk.mu[At(w).mu].writer = 0
  /\ lk.mu[At(w).mu].readers # {}
  /\ lk.waiting[At(w).mu] = 0
  /\ lk' = [lk EXCEPT !.waiting[At(w).mu] = w]

\* mu.Lock() returns: to the worker that waits in it once the readers have
\* left, or to a worker that calls it when mu is free
RWMutex_Lock(w) ==
  /\ Running(w)
  /\ At(w).op = "Lock"
  /\ CanLock(lk.mu[At(w).mu])
  /\ lk.waiting[At(w).mu] \in {0, w}
  /\ lk' = [Done(w) EXCEPT !.mu[At(w).mu] = Lock(@, w), !.waiting[At(w).mu] = 0]

RWMutex_Unlock(w) ==
  /\ Running(w)
  /\ At(w).op = "Unlock"
  /\ lk' = [Done(w) EXCEPT !.mu[At(w).mu] = Unlock(@)]

\* mu.RLock() returns: no writer holds mu and none waits in mu.Lock(). The
\* range of broadcastToRoom is over the clients of the table, which does not
\* change while clientsMu is read-locked.
RWMutex_RLock(w) ==
  /\ Running(w)
  /\ At(w).op = "RLock"
  /\ CanRLock(lk.mu[At(w).mu])
  /\ Waiting(At(w).mu) = {}
  /\ LET rest == Tail(lk.code[w])
         next == IF Head(rest).op # "range" THEN rest
                 ELSE <<[Head(rest) EXCEPT !.todo = lk.table]>> \o Tail(rest)
     IN  lk' = [lk EXCEPT !.mu[At(w).mu] = RLock(@, w), !.code[w] = next]

RWMutex_RUnlock(w) ==
  /\ Running(w)
  /\ At(w).op = "RUnlock"
  /\ lk' = [Done(w) EXCEPT !.mu[At(w).mu] = RUnlock(@, w)]

\* c.mu.Lock() returns
Mutex_Lock(w) ==
  /\ Running(w)
  /\ At(w).op = "c.mu.Lock"
  /\ MutexFree(lk.cmu[At(w).c])
  /\ lk' = [Done(w) EXCEPT !.cmu[At(w).c] = w]

\* c.Conn.WriteJSON(msg) returns, unless the connection has stopped reading,
\* and the deferred c.mu.Unlock() runs
Conn_WriteJSON(w) ==
  /\ Running(w)
  /\ At(w).op = "WriteJSON"
  /\ At(w).c \notin lk.stalled
  /\ lk' = [Done(w) EXCEPT !.cmu[At(w).c] = Mutex]

\* client.RoomID = msg.RoomID
Client_RoomID(w) ==
  /\ Running(w)
  /\ At(w).op = "RoomID"
  /\ lk' = [Done(w) EXCEPT !.RoomID[At(w).c] = At(w).mu.id]

\* clients[client.ID] = client; clientsMu.Unlock()
clients_store(w) ==
  /\ Running(w)
  /\ At(w).op = "store"
  /\ lk' = [Done(w) EXCEPT !.table = @ \cup {At(w).c}, !.mu[At(w).mu] = Unlock(@)]

\* delete(clients, client.ID); clientsMu.Unlock()
clients_delete(w) ==
  /\ Running(w)
  /\ At(w).op = "delete"
  /\ lk' = [Done(w) EXCEPT !.table = @ \ {At(w).c}, !.mu[At(w).mu] = Unlock(@)]

\* the range of broadcastToRoom goes on to a client it has not visited and
\* tests it: c.SendJSON(msg) is next if it passes
clients_range(w, c) ==
  /\ Running(w)
  /\ At(w).op = "range"
  /\ c \in At(w).todo
  /\ lk' = [lk EXCEPT !.code[w] =
              (IF lk.RoomID[c] = At(w).mu.id /\ c # At(w).c
               THEN SendJSON_code(c) ELSE <<>>)
                \o <<[At(w) EXCEPT !.todo = @ \ {c}]>> \o Tail(lk.code[w])]

\* the range has no client left: the deferred clientsMu.RUnlock()
clients_RUnlock(w) ==
  /\ Running(w)
  /\ At(w).op = "range"
  /\ At(w).todo = {}
  /\ lk' = [Done(w) EXCEPT !.mu[Mu("clients", "")] = RUnlock(@, w)]

\* a step of a handler that is running
LockWork ==
  \/ \E w \in Workers : RWMutex_Lock_wait(w) /\ UNCHANGED <<server, dir, rl, wr, gen, net, twin, hs>>
  \/ \E w \in Workers : RWMutex_Lock(w) /\ UNCHANGED <<server, dir, rl, wr, gen, net, twin, hs>>
  \/ \E w \in Workers : RWMutex_Unlock(w) /\ UNCHANGED <<server, dir, rl, wr, gen, net, twin, hs>>
  \/ \E w \in Workers : RWMutex_RLock(w) /\ UNCHANGED <<server, dir, rl, wr, gen, net, twin, hs>>
  \/ \E w \in Workers : RWMutex_RUnlock(w) /\ UNCHANGED <<server, dir, rl, wr, gen, net, twin, hs>>
  \/ \E w \in Workers : Mutex_Lock(w) /\ UNCHANGED <<server, dir, rl, wr, gen, net, twin, hs>>
  \/ \E w \in Workers : Conn_WriteJSON(w) /\ UNCHANGED <<server, dir, rl, wr, gen, net, twin, hs>>
  \/ \E w \in Workers : Client_RoomID(w) /\ UNCHANGED <<server, dir, rl, wr, gen, net, twin, hs>>
  \/ \E w \in Workers : clients_store(w) /\ UNCHANGED <<server, dir, rl, wr, gen, net, twin, hs>>
  \/ \E w \in Workers : clients_delete(w) /\ UNCHANGED <<server, dir, rl, wr, gen, net, twin, hs>>
  \/ \E w \in Workers, c \in Conns :
       clients_range(w, c) /\ UNCHANGED <<server, dir, rl, wr, gen, net, twin, hs>>
  \/ \E w \in Workers : clients_RUnlock(w) /\ UNCHANGED <<server, dir, rl, wr, gen, net, twin, hs>>

LockNext ==
  \/ \E w \in Workers : handleWebSocket_call(w) /\ UNCHANGED <<server, dir, rl, wr, gen, net, twin, hs>>
  \/ \E w \in Workers, roomID \in LockRooms :
       handleJoin_call(w, roomID) /\ UNCHANGED <<server, dir, rl, wr, gen, net, twin, hs>>
  \/ \E w \in Workers, ok \in BOOLEAN :
       handleMove_call(w, ok) /\ UNCHANGED <<server, dir, rl, wr, gen, net, twin, hs>>
  \/ \E w \in Workers : handleDisconnect_call(w) /\ UNCHANGED <<server, dir, rl, wr, gen, net, twin, hs>>
  \/ LockWork

LockSpec == LockInit /\ [][LockNext]_vars

\* the scheduler runs every goroutine that can run: a handler that can take a
\* step is not left waiting for ever
LockLive == LockSpec /\ WF_vars(LockWork)

StallSpec == StallInit /\ [][LockNext]_vars

StallLive == StallSpec /\ WF_vars(LockWork)




(* ---------------------------------------------------------------------- *)
(* The joins of a full house: every connection but the last one accepted   *)
(* has joined one room, and each of them, the last one too, sends joins    *)
(* ---------------------------------------------------------------------- *)
\* the room the first connections have joined
FullRoom == "abc"

\* the connections that have joined FullRoom
Joined == {NewIDs[n] : n \in 1..(Len(NewIDs) - 1)}

CapInit ==
  \E seed \in Seeds :
    /\ clients = [c \in IDs |-> Client(c, IF c \in Joined THEN FullRoom ELSE "")]
    /\ rooms = [i \in {FullRoom} |->
                  [ID |-> i, Maze |-> seed,
                   Players |-> [p \in Joined |-> PlayerState(p, StartX, StartY)]]]
    /\ before = rooms
    /\ closed = {}
    /\ sent = NoSend
    /\ last = Event("init", "", "", 0, 0, FALSE)
    /\ steps = 0
    /\ ws = [id \in IDs |-> Locals("ReadMessage")]
    /\ heap = NewHeap
    /\ dir = NewManager
    /\ rl = JoinedRoom(0)
    /\ wr = NoWrites
    /\ gen = NoCall
    /\ net = NoTraffic
    /\ twin = NoRuns
    /\ hs = NoHandlers
    /\ lk = NoLocks

\* the room ids the joins name
CapRooms == {FullRoom, "xyz"}

\* the connections that send joins: the third one and one of the room's two
CapJoiners == {NewIDs[1], NewIDs[Len(NewIDs)]}

CapNext ==
  \/ \E id \in CapJoiners, roomID \in CapRooms :
       steps < MaxJoins /\ handleJoin(id, roomID) /\ UNCHANGED idle
  \/ \E id \in IDs : Join_RoomID(id) /\ UNCHANGED idle
  \/ \E id \in IDs : Join_GetOrCreateRoom(id) /\ UNCHANGED idle
  \/ \E id \in IDs : Join_AddPlayer(id) /\ UNCHANGED idle
  \/ \E id \in IDs : Join_GetPlayers(id) /\ UNCHANGED idle
  \/ \E id \in IDs : Join_SendJSON(id) /\ UNCHANGED idle
  \/ \E id \in IDs : Broadcast_GetPlayers(id) /\ UNCHANGED idle
  \/ \E id \in IDs : Broadcast_RLock(id) /\ UNCHANGED idle
  \/ \E id \in IDs, c \in IDs : Broadcast_range(id, c) /\ UNCHANGED idle
  \/ \E id \in IDs : Broadcast_SendJSON(id) /\ UNCHANGED idle
  \/ \E id \in IDs, c \in IDs : Broadcast_panic(id, c) /\ UNCHANGED idle
  \/ \E id \in IDs : Broadcast_panic_RUnlock(id) /\ UNCHANGED idle
  \/ \E id \in IDs : handleWebSocket_conn_Close(id) /\ UNCHANGED idle

CapSpec == CapInit /\ [][CapNext]_vars


(* ---------------------------------------------------------------------- *)
(* What the claims speak of                                                *)
(* ---------------------------------------------------------------------- *)
\* the step taken last was the call of Room.UpdatePlayerPosition (TryMove) of a
\* handleMove, for a player the room knew
TryMoveOfKnown ==
  /\ last.op = "move"
  /\ last.at = "UpdatePlayerPosition"
  /\ last.roomId # ""
  /\ last.roomId \in DOMAIN before
  /\ last.id \in DOMAIN before[last.roomId].Players

\* the player's stored position when that call began, and the requested delta
MoveFrom == before[last.roomId].Players[last.id]
MoveDx == last.x - MoveFrom.X
MoveDy == last.y - MoveFrom.Y

UnitCardinal(dx, dy) == <<dx, dy>> \in {<<1, 0>>, <<-1, 0>>, <<0, 1>>, <<0, -1>>}

InGrid(m, x, y) == 0 <= x /\ x < m.Width /\ 0 <= y /\ y < m.Height

\* the wall flag of cell on the side a unit cardinal delta leaves it by
WallTowards(cell, dx, dy) ==
  IF dx = 1 THEN cell.Right
  ELSE IF dx = -1 THEN cell.Left
  ELSE IF dy = 1 THEN cell.Bottom
  ELSE cell.Top

\* C1: a move to a destination that is not one unit cardinal step away from the
\* player's cell (diagonal, farther, or the cell itself) is rejected and leaves
\* every stored position as it was. (CanMove tests dx before dy and neither
\* against zero, so the server accepts some of these moves.)
C1_NonNeighbourRejected ==
  (TryMoveOfKnown /\ ~UnitCardinal(MoveDx, MoveDy))
    => (~last.ok /\ rooms = before)

\* C2: for a known player and a destination one unit cardinal step away, TryMove
\* returns true iff the destination is inside the grid and the wall of the
\* player's cell on that side is open.
C2_CardinalMoveIffOpenWall ==
  (TryMoveOfKnown /\ UnitCardinal(MoveDx, MoveDy))
    => (last.ok <=>
          /\ InGrid(MazeAt(before[last.roomId].Maze), last.x, last.y)
          /\ ~WallTowards(MazeAt(before[last.roomId].Maze).Cells[MoveFrom.Y][MoveFrom.X],
                          MoveDx, MoveDy))

\* an accepted step to the left, away from the start cell
C2_Witness ==
  /\ TryMoveOfKnown
  /\ MoveDx = -1 /\ MoveDy = 0
  /\ last.ok
  /\ MoveFrom.X > 1


\* the rooms identity id is a session of
RoomsOf(rms, id) == {r \in DOMAIN rms : id \in DOMAIN rms[r].Players}

\* the number of entries of a players list that carry identity id
Entries(players, id) == Cardinality({i \in 1..Len(players) : players[i].ID = id})

\* C3: a join by an identity that is already a session of the room leaves its
\* stored position as it was and leaves one entry for it in every Snapshot; a
\* session's position changes only through an accepted move of that session.
\* (AddPlayer overwrites the session, so a second join resets the position.)
C3_AddPlayerIdempotent ==
  /\ (last.op = "join" /\ last.at = "AddPlayer" /\ last.roomId \in RoomsOf(before, last.id))
       => /\ rooms[last.roomId].Players[last.id] = before[last.roomId].Players[last.id]
          /\ \A players \in GetPlayers(rooms[last.roomId]) : Entries(players, last.id) = 1
  /\ \A r \in DOMAIN before : \A p \in DOMAIN before[r].Players :
       (p \in DOMAIN rooms[r].Players /\ rooms[r].Players[p] # before[r].Players[p])
         => (TryMoveOfKnown /\ last.ok /\ last.id = p)

\* C4: a connection that has joined a room keeps its binding (Client.RoomID)
\* until it closes, and every identity is a session of at most one room.
\* (handleJoin sets Client.RoomID on every join, so a later join rebinds.)
C4_BoundToOneRoom ==
  [][/\ \A c \in DOMAIN clients \cap DOMAIN clients' :
          RoomsOf(rooms, c) # {} => clients'[c].RoomID = clients[c].RoomID
     /\ \A id \in IDs : Cardinality(RoomsOf(rooms', id)) <= 1]_vars

\* C5: the identity of a connection whose handleDisconnect has returned is
\* a session of no room. (handleDisconnect removes the session from the room
\* named by Client.RoomID only, and from none when that is empty.)
C5_SessionDeletedOnDisconnect ==
  \A id \in closed \ DOMAIN clients : RoomsOf(rooms, id) = {}


\* the connections of the table that are bound to room r
BoundTo(r) == {c \in DOMAIN clients : clients[c].RoomID = r}

\* the step taken last was the test of client last.c in the range of the
\* broadcast of a handler
Test(op) == last.op = op /\ last.at = "range"

\* the step taken last was the c.SendJSON(msg) of the range of the broadcast
\* of a handler: the write to client last.c, which had passed the test
Visit(op) == last.op = op /\ last.at = "c.SendJSON"

\* C6: the broadcast of an accepted move goes over the whole connection table,
\* which holds the mover, bound to the room of the move; every connection its
\* test finds bound to that room, the mover too, is sent one gameState whose
\* players list shows the mover at the requested destination, and nowhere
\* else; and the range is not abandoned before it has tested every connection
\* of the table. (The test reads c.RoomID under no lock that handleJoin's
\* write of it holds: it can panic, which ends the broadcast and closes the
\* mover's connection.)
C6_AcceptedMoveBroadcast ==
  /\ (TryMoveOfKnown /\ last.ok) => last.id \in BoundTo(last.roomId)
  /\ (last.op = "move" /\ last.at = "RLock")
       => /\ ws[last.id].todo = DOMAIN clients
          /\ last.id \in BoundTo(last.roomId)
  /\ \A id \in IDs :
       (ws[id].kind = "move" /\ id \in Readers)
         => ws[id].todo \cup {ws[id].c} \subseteq DOMAIN clients \cup {""}
  /\ (Test("move") /\ last.c \in BoundTo(last.roomId))
       => /\ ws[last.id].pc = "c.SendJSON"
          /\ ws[last.id].c = last.c
  /\ Visit("move")
       => /\ Len(sent[last.c]) = 1
          /\ sent[last.c][1].Type = "gameState"
          /\ \E j \in 1..Len(sent[last.c][1].Players) :
               sent[last.c][1].Players[j] = Player(last.id, last.x, last.y)
          /\ Entries(sent[last.c][1].Players, last.id) = 1
  /\ last.op = "move" => last.at # "panic"

\* C7: a rejected move writes to no connection and leaves every stored
\* position as it was: handleMove returns to the read loop at the step that
\* rejects it, with the sender in the connection table and not closed (which is
\* all its later messages need to be handled).
C7_RejectedMoveSilent ==
  (last.op = "move" /\ ~last.ok)
    => /\ sent = NoSend
       /\ rooms = before
       /\ ws[last.id].pc = "ReadMessage"
       /\ last.id \in DOMAIN clients
       /\ last.id \notin closed

\* a move into a closed wall of the player's cell, inside the grid, with
\* another connection bound to the room
C7_Witness ==
  /\ TryMoveOfKnown /\ ~last.ok
  /\ UnitCardinal(MoveDx, MoveDy)
  /\ InGrid(MazeAt(rooms[last.roomId].Maze), last.x, last.y)
  /\ \E c \in BoundTo(last.roomId) : c # last.id

\* the mazeData frame of a join: one frame to the joiner, carrying the 10x10
\* maze of the room cell for cell and a players list with the joiner at (0,0)
MazeDataSent ==
  /\ Len(sent[last.id]) = 1
  /\ sent[last.id][1].Type = "mazeData"
  /\ sent[last.id][1].Maze # NoMaze
  /\ LET data == MazeDataAt(sent[last.id][1].Maze)
         maze == MazeAt(rooms[last.roomId].Maze)
     IN  /\ data.Width = MazeWidth /\ data.Height = MazeHeight
         /\ maze.Width = MazeWidth /\ maze.Height = MazeHeight
         /\ DOMAIN data.Cells = 0..(MazeHeight - 1)
         /\ \A y \in 0..(MazeHeight - 1) :
              /\ DOMAIN data.Cells[y] = 0..(MazeWidth - 1)
              /\ \A x \in 0..(MazeWidth - 1) :
                   /\ data.Cells[y][x].X = x /\ data.Cells[y][x].Y = y
                   /\ data.Cells[y][x].Top = maze.Cells[y][x].Top
                   /\ data.Cells[y][x].Right = maze.Cells[y][x].Right
                   /\ data.Cells[y][x].Bottom = maze.Cells[y][x].Bottom
                   /\ data.Cells[y][x].Left = maze.Cells[y][x].Left
  /\ \E j \in 1..Len(sent[last.id][1].Players) :
       sent[last.id][1].Players[j] = Player(last.id, StartX, StartY)

\* C8 as stated: a join is answered with one mazeData frame to the joiner,
\* carrying the 10x10 maze of the room cell for cell and a players list with
\* the joiner at (0,0); the list holds the joiner alone when the room had no
\* session before the join. (Another join of the room can add its player
\* between the joiner's AddPlayer and its GetPlayers.)
C8_JoinSendsMaze ==
  (last.op = "join" /\ last.at = "SendJSON")
    => /\ MazeDataSent
       /\ ws[last.id].first
            => sent[last.id][1].Players = <<Player(last.id, StartX, StartY)>>

\* C8, amended: a join is answered with one mazeData frame to the joiner,
\* carrying the 10x10 maze of the room cell for cell and a players list with
\* the joiner at (0,0); the list is a Snapshot of the room taken after the
\* joiner was added, so it holds the joiner alone when the room has no other
\* session at that moment.
C8_JoinSendsSnapshot ==
  /\ (last.op = "join" /\ last.at = "mazeData")
       => /\ ws[last.id].players \in GetPlayers(rooms[last.roomId])
          /\ Entries(ws[last.id].players, last.id) = 1
          /\ DOMAIN rooms[last.roomId].Players = {last.id}
               => ws[last.id].players = <<Player(last.id, StartX, StartY)>>
  /\ (last.op = "join" /\ last.at = "SendJSON") => MazeDataSent

\* a join of a room that already had another session, which had moved
C8_Witness ==
  /\ last.op = "join" /\ last.at = "SendJSON"
  /\ Len(sent[last.id]) = 1
  /\ Len(sent[last.id][1].Players) = 2
  /\ \E j \in 1..2 : sent[last.id][1].Players[j].X + sent[last.id][1].Players[j].Y > 0

\* C9: the broadcast of a join sends every other connection its test finds
\* bound to the room one playerJoined naming the joiner, with a players list
\* taken after the joiner was added, which has the joiner in it once, at
\* (0,0); the joiner is sent no playerJoined; and the range is not abandoned
\* before it has tested every connection of the table. (The test reads
\* c.RoomID under no lock that handleJoin's write of it holds: it can panic,
\* which ends the broadcast and closes the joiner's connection.)
C9_JoinNotifiesOthers ==
  /\ (Test("join") /\ last.c \in BoundTo(last.roomId) \ {last.id})
       => /\ ws[last.id].pc = "c.SendJSON"
          /\ ws[last.id].c = last.c
  /\ Visit("join")
       => /\ last.c # last.id
          /\ Len(sent[last.c]) = 1
          /\ sent[last.c][1].Type = "playerJoined"
          /\ sent[last.c][1].Message = last.id
          /\ \E j \in 1..Len(sent[last.c][1].Players) :
               sent[last.c][1].Players[j] = Player(last.id, StartX, StartY)
          /\ Entries(sent[last.c][1].Players, last.id) = 1
  /\ last.op = "join"
       => \A i \in 1..Len(sent[last.id]) : sent[last.id][i].Type # "playerJoined"
  /\ last.op = "join" => last.at # "panic"

\* C10: when a connection that has joined room R closes, its player is in no
\* later Snapshot of R, every connection the broadcast finds bound to R is sent
\* one playerLeft naming the leaver with a list without the leaver, and the
\* closing connection is sent nothing. (handleDisconnect acts on the room named
\* by Client.RoomID only, and on none when that is empty.)
C10_PlayerLeftOnClose ==
  /\ \A id \in closed \ DOMAIN clients : \A r \in DOMAIN rooms :
       \A players \in GetPlayers(rooms[r]) : Entries(players, id) = 0
  /\ last.op = "disconnect" => sent[last.id] = <<>>
  /\ (Test("disconnect") /\ last.c \in BoundTo(last.roomId))
       => /\ ws[last.id].pc = "c.SendJSON"
          /\ ws[last.id].c = last.c
  /\ Visit("disconnect")
       => /\ Len(sent[last.c]) = 1
          /\ sent[last.c][1].Type = "playerLeft"
          /\ sent[last.c][1].Message = last.id
          /\ Entries(sent[last.c][1].Players, last.id) = 0

\* the Room objects ever allocated for a room id
RoomsMadeFor(d, roomID) == {i \in 1..Len(d.heap) : d.heap[i].ID = roomID}

\* the workers whose GetOrCreateRoom(roomID) has returned
Returned(d, roomID) == {w \in Workers : d.pc[w] = "done" /\ d.roomID[w] = roomID}

\* C11: in every interleaving of GetOrCreateRoom calls for one room id, every
\* caller gets the same Room object (so the same maze), one Room and one maze
\* are ever made for the id, and the directory holds that Room under the id.
C11_OneRoomPerId ==
  \A roomID \in RoomIDs :
    /\ Cardinality(RoomsMadeFor(dir, roomID)) <= 1
    /\ Len(dir.mazes) = Len(dir.heap)
    /\ \A w \in Returned(dir, roomID) :
         /\ RoomsMadeFor(dir, roomID) = {dir.ret[w]}
         /\ roomID \in DOMAIN dir.rooms
         /\ dir.rooms[roomID] = dir.ret[w]
         /\ \A v \in Returned(dir, roomID) :
              /\ dir.ret[v] = dir.ret[w]
              /\ dir.heap[dir.ret[v]].Maze = dir.heap[dir.ret[w]].Maze

\* two calls for the same unknown id that overlapped in time have both returned
C11_Witness ==
  \E w \in Workers, v \in Workers :
    /\ w # v
    /\ dir.pc[w] = "done" /\ dir.pc[v] = "done"
    /\ dir.roomID[w] = dir.roomID[v]
    /\ w \in dir.during[v]
    /\ dir.room[w] # 0
    /\ dir.ret[v] = dir.room[w]

\* C12: in every interleaving of accepted moves of distinct players of one
\* room, a GetPlayers that began after an UpdatePlayerPosition returned true
\* shows that player at its new position (so, begun after both, shows both);
\* and between the Lock() and the Unlock() of one UpdatePlayerPosition no other
\* worker is inside UpdatePlayerPosition or GetPlayers, so that no Snapshot shows
\* a position that is neither the one before the move nor the one after it.
C12_NoLostUpdate ==
  \A w \in Workers :
    /\ \A v \in rl.after[w] : \A e \in BagToSet(rl.players[w]) :
         e.ID = PlayerOf(v) => e.X = rl.x[v] /\ e.Y = rl.y[v]
    /\ \A v \in Workers : \A e \in BagToSet(rl.players[w]) :
         e.ID = PlayerOf(v)
           => \/ e = Player(PlayerOf(v), StartX, StartY)
              \/ e = Player(PlayerOf(v), rl.x[v], rl.y[v])
    /\ rl.pc[w] \in Validating \cup Writing
         => \A v \in Workers \ {w} : rl.pc[v] \notin Validating \cup Writing \cup {"copy"}

\* two moves of two players that overlapped in time were both accepted, to
\* different cells, and a GetPlayers begun after both has returned
C12_Witness ==
  \E w \in Workers, v \in Workers :
    /\ w # v
    /\ v \in rl.during[w]
    /\ rl.ok[w] /\ rl.ok[v]
    /\ <<rl.x[w], rl.y[w]>> # <<rl.x[v], rl.y[v]>>
    /\ {w, v} \subseteq rl.after[w]
    /\ rl.pc[w] = "done"
    /\ {e.ID : e \in BagToSet(rl.players[w])} = DOMAIN rl.Players

\* C13: in every interleaving of direct sends and broadcasts, at most one
\* worker is inside Conn.WriteJSON of any one connection.
C13_OneWriterPerConnection ==
  \A c \in Conns : Cardinality(wr.writing[c]) <= 1

\* a worker is writing a frame of a direct send to its own connection while the
\* worker of another connection, in a broadcast, waits to write to it
C13_Witness ==
  \E w \in Workers, v \in Workers :
    /\ w # v
    /\ wr.from[w] = "SendJSON" /\ wr.pc[w] = "writing" /\ wr.c[w] = PlayerOf(w)
    /\ wr.from[v] = "broadcastToRoom" /\ wr.pc[v] = "lock" /\ wr.c[v] = PlayerOf(w)

\* the cells of a grid, as <<x, y>>
GridCells(m) == (0..(m.Width - 1)) \X (0..(m.Height - 1))

\* the cells next to cell a that the open walls of a lead to
OpenTo(m, a) ==
  LET c == m.Cells[a[2]][a[1]]
  IN  {b \in GridCells(m) :
         \/ b = <<a[1] + 1, a[2]>> /\ ~c.Right
         \/ b = <<a[1] - 1, a[2]>> /\ ~c.Left
         \/ b = <<a[1], a[2] + 1>> /\ ~c.Bottom
         \/ b = <<a[1], a[2] - 1>> /\ ~c.Top}

\* the cells that can be reached from the cells of seen through open walls
RECURSIVE ReachableFrom(_, _)
ReachableFrom(m, seen) ==
  LET more == seen \cup UNION {OpenTo(m, a) : a \in seen}
  IN  IF more = seen THEN seen ELSE ReachableFrom(m, more)

\* the pairs of adjacent cells whose shared wall is open on both sides: a cell
\* with its right neighbour ("h"), a cell with the neighbour below it ("v")
OpenPairs(m) ==
  {<<a, "h">> : a \in {b \in GridCells(m) :
                         /\ b[1] + 1 < m.Width
                         /\ ~m.Cells[b[2]][b[1]].Right
                         /\ ~m.Cells[b[2]][b[1] + 1].Left}}
  \cup
  {<<a, "v">> : a \in {b \in GridCells(m) :
                         /\ b[2] + 1 < m.Height
                         /\ ~m.Cells[b[2]][b[1]].Bottom
                         /\ ~m.Cells[b[2] + 1][b[1]].Top}}

\* C14: for every width and height of at least 1 and every sequence of random
\* choices, in the maze NewMaze returns every cell can be reached from (0,0)
\* through open walls and exactly width*height-1 wall-pairs are open.
C14_SpanningTree ==
  gen.status = "returned"
    => /\ ReachableFrom(gen.m, {<<0, 0>>}) = GridCells(gen.m)
       /\ Cardinality(OpenPairs(gen.m)) = gen.width * gen.height - 1

\* a maze of at least two rows and two columns has been returned
C14_Witness ==
  /\ gen.status = "returned"
  /\ gen.width >= 2 /\ gen.height >= 2
  /\ gen.draws = gen.width * gen.height - 1

\* C15: in every state of a generation run and in the returned maze the two
\* facing wall flags of horizontally and of vertically adjacent cells agree.
C15_FacingWallsAgree ==
  gen.status \in {"generate", "returned"}
    => \A a \in GridCells(gen.m) :
         /\ a[1] + 1 < gen.m.Width
              => gen.m.Cells[a[2]][a[1]].Right = gen.m.Cells[a[2]][a[1] + 1].Left
         /\ a[2] + 1 < gen.m.Height
              => gen.m.Cells[a[2]][a[1]].Bottom = gen.m.Cells[a[2] + 1][a[1]].Top

\* generation is under way and has carved a wall in each direction
C15_Witness ==
  /\ gen.status = "generate"
  /\ Len(gen.stack) > 1
  /\ \E p \in OpenPairs(gen.m) : p[2] = "h"
  /\ \E p \in OpenPairs(gen.m) : p[2] = "v"

\* C16: generation never clears an outward wall of a boundary cell: the top of
\* row 0, the bottom of the last row, the left of column 0 and the right of the
\* last column are closed in every state of a run and in the returned maze.
C16_BoundaryWallsClosed ==
  gen.status \in {"generate", "returned"}
    => \A a \in GridCells(gen.m) :
         /\ a[2] = 0 => gen.m.Cells[a[2]][a[1]].Top
         /\ a[2] = gen.m.Height - 1 => gen.m.Cells[a[2]][a[1]].Bottom
         /\ a[1] = 0 => gen.m.Cells[a[2]][a[1]].Left
         /\ a[1] = gen.m.Width - 1 => gen.m.Cells[a[2]][a[1]].Right

\* a maze has been returned in which generation carved its way out of each of
\* the four corner cells
C16_Witness ==
  /\ gen.status = "returned"
  /\ gen.width >= 2 /\ gen.height >= 2
  /\ \A a \in {0, gen.width - 1} \X {0, gen.height - 1} : OpenTo(gen.m, a) # {}

\* C17: in every reachable state of the server every session of every room is
\* at a cell of the grid of that room's maze.
C17_PositionsInGrid ==
  \A roomID \in DOMAIN rooms :
    \A p \in DOMAIN rooms[roomID].Players :
      InGrid(MazeAt(rooms[roomID].Maze),
             rooms[roomID].Players[p].X, rooms[roomID].Players[p].Y)

\* a player that has left the start cell asked for a destination outside the
\* grid, one step from a cell of the grid's edge, and stayed where it was
C17_Witness ==
  /\ TryMoveOfKnown
  /\ <<MoveFrom.X, MoveFrom.Y>> # <<StartX, StartY>>
  /\ ~InGrid(MazeAt(before[last.roomId].Maze), last.x, last.y)
  /\ ~last.ok
  /\ rooms = before

\* the step taken last was a ReadMessage of the read loop that returned a
\* frame: the loop went on, or called handleJoin or handleMove
FrameRead ==
  \/ last.op = "continue"
  \/ last.op = "join" /\ last.at = "handleJoin"
  \/ last.op = "move" /\ last.at = "GetRoom"

\* bytes that are no JSON, a type that is neither join nor move, or a move
\* whose x or y is written with a fraction
BadFrame(f) ==
  \/ ~f.json
  \/ f.type \notin {"join", "move"}
  \/ f.type = "move" /\ (f.x.fraction # "" \/ f.y.fraction # "")

\* C18: a frame that does not decode, has an unknown type, or is a move with a
\* non-integer x or y is dropped whole: no room changes, no frame is sent, the
\* connection stays in the table with its binding, is not closed, and its
\* worker reads the next frame.
C18_BadFrameDropped ==
  (FrameRead /\ BadFrame(net.frame))
    => /\ last.op = "continue"
       /\ rooms = before
       /\ sent = NoSend
       /\ net.delivered = NoSend
       /\ last.id \in DOMAIN clients
       /\ last.id \notin closed
       /\ clients[last.id].RoomID = last.roomId
       /\ ws[last.id].pc = "ReadMessage"
       /\ (steps < MaxFrames /\ last.id \notin net.broken)
            => ENABLED ReadMessage(last.id, Frame(TRUE, "join", "abc",
                                                  Number(0, ""), Number(0, "")))

\* a member of a room sent a move with x = 1.5, which the maze of the room
\* would let it make with x = 1
C18_Witness ==
  /\ last.op = "continue"
  /\ net.frame.type = "move"
  /\ net.frame.x = Number(1, ".5")
  /\ last.roomId = "abc"
  /\ "abc" \in DOMAIN rooms
  /\ last.id \in DOMAIN rooms["abc"].Players
  /\ CanMove(MazeAt(rooms["abc"].Maze), rooms["abc"].Players[last.id].X,
             rooms["abc"].Players[last.id].Y, 1, 0)

\* the types of the frames a handler broadcasts
Broadcasts == {"playerJoined", "playerLeft", "gameState"}

\* the types of the frames of a sequence of frames
TypesOf(frames) == {frames[i].Type : i \in 1..Len(frames)}

\* the step is a step of the cleanup of a connection whose read failed
CleanupStep == last'.op = "disconnect" /\ ws' # ws

\* the cleanup takes the connection, and nothing else, out of the table
OnlyThatConnectionCloses ==
  /\ DOMAIN clients' = DOMAIN clients \ {last'.id}
  /\ closed' \subseteq closed \cup {last'.id}
  /\ \A c \in DOMAIN clients' : clients'[c] = clients[c]

\* when the cleanup returns, the connection's player is out of the room the
\* connection was bound to
PlayerLeavesItsRoom ==
  (last'.id \in closed' \ closed /\ last'.roomId \in DOMAIN rooms')
    => last'.id \notin DOMAIN rooms'[last'.roomId].Players

\* the cleanup leaves every other session of every room as it was
OtherSessionsStay ==
  /\ DOMAIN rooms' = DOMAIN rooms
  /\ \A roomID \in DOMAIN rooms :
       \A p \in DOMAIN rooms[roomID].Players \ {last'.id} :
         /\ p \in DOMAIN rooms'[roomID].Players
         /\ rooms'[roomID].Players[p] = rooms[roomID].Players[p]

\* the step is a c.SendJSON(msg) of the range of a broadcast
VisitStep == last'.at = "c.SendJSON" /\ ws' # ws

\* a write of a broadcast to a broken socket or to a closed connection fails
\* and the range goes on to the clients it has still to test; what it writes
\* to a connection that is open on a socket that works is delivered
BroadcastSurvivesFailure ==
  /\ last'.c \in net'.broken \cup closed
       => /\ net'.delivered[last'.c] = <<>>
          /\ ws[last'.id].todo # {}
               => /\ ws'[last'.id].pc = "range"
                  /\ ws'[last'.id].todo = ws[last'.id].todo
  /\ last'.c \notin net'.broken \cup closed
       => /\ net'.delivered[last'.c] = sent'[last'.c]
          /\ Len(sent'[last'.c]) = 1

\* C19: a transport failure on a connection is fatal to it alone: its cleanup
\* takes it out of the connection table and its player out of its room, closes
\* no other connection, removes or moves no other session; and a broadcast in
\* which the write to one recipient fails still reaches the other members.
\* (handleDisconnect removes no player when client.RoomID is "", though a join
\* with an empty room id has put one into the room "".)
C19_FailureIsLocal ==
  [][/\ CleanupStep => /\ OnlyThatConnectionCloses
                       /\ PlayerLeavesItsRoom
                       /\ OtherSessionsStay
     /\ VisitStep => BroadcastSurvivesFailure]_vars

AllVisited(m) == \A a \in GridCells(m) : m.Cells[a[2]][a[1]].Visited

\* C21: for every width and height of at least 1 and every sequence of random
\* choices, the loop of generate ends: the stack becomes empty, and whenever it
\* is empty every cell is marked visited.
C21_GenerationTerminates ==
  /\ [](gen.status = "generate" => <>(Len(gen.stack) = 0 /\ gen.status = "returned"))
  /\ []((gen.status \in {"generate", "returned"} /\ Len(gen.stack) = 0)
          => AllVisited(gen.m))

\* NewMaze has returned for a grid of the largest width and at least two rows,
\* after one pop per cell
C21_Witness ==
  /\ gen.status = "returned"
  /\ Len(gen.stack) = 0
  /\ gen.width >= 3 /\ gen.height >= 2
  /\ AllVisited(gen.m)

\* C22: two runs of NewMaze with the same width, the same height and the same
\* random source return mazes that are equal cell for cell. (NewMaze takes no
\* source: both runs read the source of the process, each from where the
\* draws before it have left it.)
C22_SameInputsSameMaze ==
  (/\ twin[1].status = "returned" /\ twin[2].status = "returned"
   /\ twin[1].width = twin[2].width /\ twin[1].height = twin[2].height
   /\ twin[1].seed = twin[2].seed)
    => twin[1].m = twin[2].m

\* the two mazes have the same cells with the same wall flags
SameWalls(m, n) ==
  /\ m.Width = n.Width /\ m.Height = n.Height
  /\ \A y \in 0..(m.Height - 1), x \in 0..(m.Width - 1) :
       /\ m.Cells[y][x].Top = n.Cells[y][x].Top
       /\ m.Cells[y][x].Right = n.Cells[y][x].Right
       /\ m.Cells[y][x].Bottom = n.Cells[y][x].Bottom
       /\ m.Cells[y][x].Left = n.Cells[y][x].Left

\* C23: the maze of a room that is in the directory is never changed: after
\* every step of every handler the room points to the maze object it pointed
\* to before the step, every cell of that object has the wall flags NewMaze
\* returned it with, and every mazeData frame carries the maze of the room
\* it is sent for.
C23_MazeNeverMutated ==
  /\ \A roomID \in DOMAIN before :
       roomID \in DOMAIN rooms /\ rooms[roomID].Maze = before[roomID].Maze
  /\ \A roomID \in DOMAIN rooms :
       \/ heap[rooms[roomID].Maze] = Untouched
       \/ SameWalls(MazeAt(rooms[roomID].Maze), MazeObjects[rooms[roomID].Maze])
  /\ \A c \in IDs : \A i \in 1..Len(sent[c]) :
       sent[c][i].Type = "mazeData"
         => MazeDataAt(sent[c][i].Maze)
              = convertMazeToMessage(MazeAt(rooms[last.roomId].Maze))

\* a mazeData frame is sent for a room in which a player has moved
C23_Witness ==
  /\ last.op = "join"
  /\ last.at = "SendJSON"
  /\ last.roomId \in DOMAIN before
  /\ \E p \in DOMAIN before[last.roomId].Players \ {last.id} :
       <<before[last.roomId].Players[p].X, before[last.roomId].Players[p].Y>>
         # <<StartX, StartY>>
  /\ Len(sent[last.id]) = 1
  /\ sent[last.id][1].Type = "mazeData"

\* C24: the directory is append-only: a room id that is mapped stays mapped to
\* the same Room (same id, same maze object, and no step of a join takes a
\* session out of it), whatever step of whatever handler runs, also when the
\* room has no player left: the directory after a step holds every room it
\* held before the step.
C24_DirectoryAppendOnly ==
  \A roomID \in DOMAIN before :
    /\ roomID \in DOMAIN rooms
    /\ rooms[roomID].ID = before[roomID].ID
    /\ rooms[roomID].Maze = before[roomID].Maze
    /\ last.op = "join"
         => DOMAIN before[roomID].Players \subseteq DOMAIN rooms[roomID].Players

\* the GetOrCreateRoom of a join has found the room that its last player had
\* left (no other join is under way), and has made no new one
C24_Witness ==
  /\ last.op = "join"
  /\ last.at = "GetOrCreateRoom"
  /\ last.roomId \in DOMAIN before
  /\ DOMAIN before[last.roomId].Players = {}
  /\ rooms = before
  /\ \A c \in IDs \ {last.id} : ws[c].kind # "join"

\* C25: the slice a GetPlayers returned has exactly one entry for each player
\* the room had when the call took the read lock, none twice and none
\* missing, each with the position the player had then; it is a copy, so
\* that it still reads so after later AddPlayer, RemovePlayer and
\* UpdatePlayerPosition calls changed the room.
C25_SnapshotIsCopy ==
  \A w \in Workers :
    rl.pc[w] = "done"
      => /\ BagCardinality(rl.players[w]) = Cardinality(DOMAIN rl.at[w])
         /\ \A p \in DOMAIN rl.at[w] :
              CopiesIn(Player(p, rl.at[w][p].X, rl.at[w][p].Y), rl.players[w]) = 1

\* a GetPlayers has returned two players, one of them away from the start
\* cell, and since then a player it shows has left the room or has moved
C25_Witness ==
  \E w \in Workers :
    /\ rl.pc[w] = "done"
    /\ BagCardinality(rl.players[w]) >= 2
    /\ \E e \in BagToSet(rl.players[w]) : <<e.X, e.Y>> # <<StartX, StartY>>
    /\ \E p \in DOMAIN rl.at[w] :
         \/ p \notin DOMAIN rl.Players
         \/ rl.Players[p] # rl.at[w][p]

\* C27: a connection of the table that has sent no join (its identity is a
\* player of no room and it is in no handleJoin) is sent no playerJoined,
\* playerLeft or gameState,
\* whatever room id the other connections joined. (broadcastToRoom selects the
\* clients whose RoomID equals the room id; the RoomID of a connection that
\* has not joined is "", the room id of a join that names none.)
C27_BroadcastOnlyToJoined ==
  \A c \in DOMAIN clients :
    (RoomsOf(rooms, c) = {} /\ ws[c].kind # "join")
      => TypesOf(sent[c]) \cap Broadcasts = {}

\* C26: whenever no join, move or disconnect handler of the room is running,
\* the players list last written to each open connection bound to the room
\* is the room's current Snapshot, in every interleaving. (A handler takes
\* its Snapshot and writes it under different locks: the list of an earlier
\* Snapshot can be the one written last.)
C26_StaleSelfCorrects ==
  Quiescent(hs) => ListsCurrent(hs)

\* C26, amended: an update corrects what is stale when it runs by itself: when
\* a join, accepted move or disconnect handler of the room has run from its
\* beginning to its return with no other handler of the room running, the
\* players list last written to each open connection bound to the room is
\* the room's current Snapshot. (A connection whose worker a panic ended is
\* closed and still in the table: nothing more is delivered to it.)
C26_NextUpdateCorrects ==
  hs.ended = "alone" => ListsCurrent(hs)

\* after handlers that overlapped had left a connection of the room with a
\* list that was not the room's Snapshot, a handler that ran by itself has
\* returned: two open connections are bound to the room, and the list last
\* written to each of them is the Snapshot, with a player away from the start
\* cell
C26_Witness ==
  /\ hs.ended = "alone"
  /\ hs.stale
  /\ hs.begun >= 3
  /\ Cardinality({c \in hs.table \ Closed(hs) : hs.RoomID[c] = HandlerRoom}) >= 2
  /\ \A c \in hs.table :
       hs.RoomID[c] = HandlerRoom
         => \E e \in hs.lastList[c] : <<e.X, e.Y>> # <<StartX, StartY>>

\* C28: the first frame about the room that is written to a connection is its
\* mazeData: no gameState, playerJoined or playerLeft is written to it before,
\* in every interleaving with the handlers of the other connections of the
\* room. (handleJoin binds the connection to the room, client.RoomID =
\* msg.RoomID, before it writes the mazeData; from then on the broadcasts of
\* the room reach the connection.)
C28_MazeDataFirst ==
  \A c \in Conns : hs.first[c] \in {"", "mazeData"}

\* the workers that keep worker w from its next statement: the holders of the
\* lock it is to take, and the worker that waits in Lock() of an RWMutex it is
\* to lock or read-lock
Blockers(w) ==
  IF ~Running(w) THEN {}
  ELSE IF At(w).op = "Lock"
  THEN {v \in Workers \ {w} :
          \/ lk.mu[At(w).mu].writer = v
          \/ v \in lk.mu[At(w).mu].readers
          \/ v \in Waiting(At(w).mu)}
  ELSE IF At(w).op = "RLock"
  THEN {v \in Workers \ {w} :
          lk.mu[At(w).mu].writer = v \/ v \in Waiting(At(w).mu)}
  ELSE IF At(w).op = "c.mu.Lock"
  THEN {v \in Workers \ {w} : lk.cmu[At(w).c] = v}
  ELSE {}

\* the workers that w waits for, directly or through others
RECURSIVE WaitsFor(_, _)
WaitsFor(w, n) ==
  IF n = 0 THEN {}
  ELSE Blockers(w) \cup UNION {WaitsFor(v, n - 1) : v \in Blockers(w)}

NoWaitCycle == \A w \in Workers : w \notin WaitsFor(w, NumWorkers)

\* the workers of the connections that are not in the room of a connection
\* that has stopped reading
Elsewhere ==
  {w \in Workers : \A c \in lk.stalled : lk.RoomID[PlayerOf(w)] # lk.RoomID[c]}

\* C29: a connection that stops reading, so that a write to it does not
\* return, does not stop the connections of the other rooms: the registration
\* of a new connection and the join, the move and the disconnect of a
\* connection of another room return (from some point on none of them is
\* running).
C29_StalledRoomOnly ==
  <>[](\A w \in Elsewhere : ~Running(w))

\* a worker is blocked in clientsMu.Lock() by a worker that holds clientsMu
\* read-locked in the range of a broadcast, and is itself in c.SendJSON
C30_Witness ==
  \E w, v \in Workers :
    /\ Running(w) /\ Running(v)
    /\ At(w).op = "Lock" /\ At(w).mu = Mu("clients", "")
    /\ v \in Blockers(w)
    /\ At(v).op \in {"c.mu.Lock", "WriteJSON"}
    /\ lk.stalled = {}

\* every handler that has begun has returned
AllReturned == \A w \in Workers : ~Running(w)

\* C30: the locks of the server never deadlock: while every write to a socket
\* returns, no workers wait for each other's locks in a cycle, and every
\* handler that has begun returns (a worker runs one handler: from some point
\* on no handler is running), in every interleaving of the workers.
C30_NoDeadlock ==
  /\ []NoWaitCycle
  /\ <>[]AllReturned

\* C31: an accepted TryMove(p, x, y) sets the stored position of p to exactly
\* (x, y) and changes nothing else: the position of every other player, the
\* set of players and the maze of the room, and every other room, are as they
\* were.
C31_AcceptedMoveFrame ==
  (TryMoveOfKnown /\ last.ok)
    => rooms = [before EXCEPT ![last.roomId].Players[last.id] =
                  PlayerState(last.id, last.x, last.y)]

\* an accepted move away from the start cell in a room with another player
C31_Witness ==
  /\ TryMoveOfKnown /\ last.ok
  /\ <<last.x, last.y>> # <<StartX, StartY>>
  /\ DOMAIN rooms[last.roomId].Players \ {last.id} # {}

\* C32: a connection that has not joined any room has no effect on the rooms:
\* its move changes no room and writes to no connection, and its disconnect
\* removes no player and broadcasts no playerLeft. (Its RoomID is empty, and
\* handleMove and handleDisconnect return at that test.)
C32_UnjoinedHasNoEffect ==
  /\ \A id \in DOMAIN clients :
       (RoomsOf(rooms, id) = {} /\ ws[id].kind # "join") => clients[id].RoomID = ""
  /\ (last.op \in {"move", "disconnect"} /\ last.roomId = ""
        /\ RoomsOf(before, last.id) = {})
       => /\ rooms = before
          /\ sent = NoSend
          /\ ws[last.id].pc \in {"ReadMessage", "closed"}

\* a connection that has not joined disconnects while a room with the empty
\* id exists and a connection is bound to it
C32_Witness ==
  /\ last.op = "disconnect"
  /\ last.roomId = ""
  /\ RoomsOf(before, last.id) = {}
  /\ "" \in DOMAIN rooms
  /\ \E c \in DOMAIN clients : c \in DOMAIN rooms[""].Players

\* the identities of a players list
ListedIn(players) == {players[i].ID : i \in 1..Len(players)}

\* C33: no player cap is enforced: a join is never turned away because of the
\* size of the room. The AddPlayer of a join, also of a third connection to a
\* room of two, makes the joiner a player of the room beside all those that
\* were; it is once in every Snapshot, in the list of the mazeData it is sent,
\* and in the list of the playerJoined written to every other connection the
\* test of the broadcast finds bound to the room.
C33_NoPlayerCap ==
  /\ (last.op = "join" /\ last.at = "AddPlayer")
       => /\ last.id \in DOMAIN rooms[last.roomId].Players
          /\ DOMAIN before[last.roomId].Players \subseteq DOMAIN rooms[last.roomId].Players
          /\ \A players \in GetPlayers(rooms[last.roomId]) : Entries(players, last.id) = 1
  /\ (last.op = "join" /\ last.at = "mazeData")
       => ListedIn(ws[last.id].players) = DOMAIN rooms[last.roomId].Players
  /\ (last.op = "join" /\ last.at = "SendJSON")
       => /\ Len(sent[last.id]) = 1
          /\ last.id \in ListedIn(sent[last.id][1].Players)
  /\ (Test("join") /\ last.c \in BoundTo(last.roomId) \ {last.id})
       => /\ ws[last.id].pc = "c.SendJSON"
          /\ ws[last.id].c = last.c
  /\ Visit("join")
       => /\ Len(sent[last.c]) = 1
          /\ last.id \in ListedIn(sent[last.c][1].Players)
          /\ ListedIn(sent[last.c][1].Players) \subseteq DOMAIN rooms[last.roomId].Players

\* the third connection has joined the room of the two others, and its
\* broadcast has written a list of three players to one of them
C33_Witness ==
  /\ Visit("join")
  /\ last.id \notin Joined
  /\ last.roomId = FullRoom
  /\ last.c \in Joined \cap BoundTo(FullRoom)
  /\ Len(sent[last.c]) = 1
  /\ Len(sent[last.c][1].Players) = Len(NewIDs)
  /\ ListedIn(sent[last.c][1].Players) = IDs

\* worker w is at its write of the RoomID of client c
WritesRoomID(w, c) == Running(w) /\ At(w).op = "RoomID" /\ At(w).c = c

\* worker v is in the range of a broadcast and has the RoomID of client c
\* still to read
ReadsRoomID(v, c) == Running(v) /\ At(v).op = "range" /\ c \in At(v).todo

\* C34: the room binding of a connection is never written by its worker while
\* the broadcast of another worker reads it: the write and the read hold a
\* common lock. (handleJoin writes client.RoomID holding no lock, while
\* broadcastToRoom reads it holding clientsMu for reading.)
C34_RoomIDSynchronized ==
  \A w, v \in Workers : \A c \in Conns :
    w # v => ~(WritesRoomID(w, c) /\ ReadsRoomID(v, c))

====
